---- MODULE Spec2Model ----
(***************************************************************************)
(* Drag-and-drop item-view examples: the owning TreeNode store, the        *)
(* TreeModel adapter over it, and the drop handlers of the email-folder    *)
(* item widgets.  The repository is a collection of independent programs;  *)
(* the variable `program` says which one a behaviour is about, and each    *)
(* specification below fixes it in its initial predicate.                  *)
(***************************************************************************)
EXTENDS Integers, Sequences, FiniteSets, TLC

VARIABLES
    calls,          \* number of calls made so far
    program,        \* which example program is running
    m_childNodes,   \* TreeNode::m_childNodes, per node address
    m_parentNode,   \* TreeNode::m_parentNode, per node address
    m_itemData,     \* TreeNode::m_itemData, per node address
    live,           \* addresses of the TreeNode objects that exist
    held,           \* nodes owned by a unique_ptr outside any child sequence
    net,            \* per node: appendChild + insertChild calls minus takeChild calls
    m_emails,       \* TopLevel::m_emails: per folder, its list of emails
    m_folder,       \* EmailsListWidget::m_folder: the folder the emails widget shows
    emailItems,     \* the items of the emails widget, by row: address and text
    counts,         \* the numbers the count column of the folders widget displays
    clicks,         \* folder clicks so far
    m_data,         \* CountryModel::m_data, per model of the program
    drag,           \* the drag a tree view has in progress
    last            \* the last call: operation, arguments, result, trace

treeVars == <<m_childNodes, m_parentNode, m_itemData, live, held, net>>

widgetVars == <<m_emails, m_folder, emailItems, counts, clicks>>

vars == <<calls, program, treeVars, widgetVars, m_data, drag, last>>

----------------------------------------------------------------------------
(* Bounds *)

\* node addresses are 1..MaxNode
MaxNode == 7

\* nodes the TreeNode caller has constructed at a time
MaxStore == 4

\* nodes dragged in one payload
MaxDrag == 2

\* calls made on the tree models in one behaviour
MaxModelCalls == 1

\* lines of the text model 1 is constructed from
MaxLines == 3

\* drops in one behaviour of an email-folder program
MaxDrops == 1

\* folder clicks in one behaviour of an email-folder program
MaxClicks == 1

\* drags in one behaviour of the two tree views
MaxDrags == 1

\* nodes a caller holds at a time besides the root
MaxHeld == 1

\* calls made in one behaviour
MaxCalls == 10

\* command-line words given to a main function
MaxWords == 2

\* calls of a CountryModel's moving and dropping handlers
MaxMoves == 1

NULL == 0

Nodes == 1..MaxNode

\* column values a node can be constructed with (one or two columns)
DataSet == {<<"A">>, <<"B", "b">>}

----------------------------------------------------------------------------
(* Sequences of a std::vector *)

\* the elements of a sequence
Range(s) == {s[i] : i \in 1..Len(s)}

\* std::vector::insert(begin() + pos, x)
VecInsert(s, pos, x) == SubSeq(s, 1, pos) \o <<x>> \o SubSeq(s, pos + 1, Len(s))

\* std::vector::erase(begin() + pos)
VecErase(s, pos) == SubSeq(s, 1, pos) \o SubSeq(s, pos + 2, Len(s))

\* position (0-based) of the first element equal to x, or -1
IndexOf(s, x) ==
    IF \E i \in 1..Len(s) : s[i] = x
    THEN (CHOOSE i \in 1..Len(s) : s[i] = x /\ \A j \in 1..(i - 1) : s[j] # x) - 1
    ELSE -1

----------------------------------------------------------------------------
(* The TreeNode store.  A heap h is the record of the four per-node maps.  *)

Heap == [children |-> m_childNodes, parent |-> m_parentNode,
         data |-> m_itemData, live |-> live]

SetHeap(h) ==
    /\ m_childNodes' = h.children
    /\ m_parentNode' = h.parent
    /\ m_itemData' = h.data
    /\ live' = h.live

EmptyHeap ==
    [children |-> [n \in Nodes |-> <<>>], parent |-> [n \in Nodes |-> NULL],
     data |-> [n \in Nodes |-> <<>>], live |-> {}]

\* operator new: the lowest free address
NewAddress(h) == CHOOSE a \in Nodes \ h.live : \A b \in Nodes \ h.live : a <= b

\* TreeNode::TreeNode(data, parent) at address a
Construct(h, a, data, parent) ==
    [children |-> [h.children EXCEPT ![a] = <<>>],
     parent |-> [h.parent EXCEPT ![a] = parent],
     data |-> [h.data EXCEPT ![a] = data],
     live |-> h.live \cup {a}]

\* TreeNode::appendChild: push_back, the child's parent reference is left alone
appendChild(h, p, child) ==
    [h EXCEPT !.children[p] = Append(@, child)]

\* insertChild that, like appendChild, leaves the parent reference alone
insertChild_noParent(h, p, pos, child) ==
    [h EXCEPT !.children[p] = VecInsert(@, pos, child)]

\* TreeNode::insertChild: sets the child's parent reference, then inserts
insertChild(h, p, pos, child) ==
    [h EXCEPT !.parent[child] = p,
              !.children[p] = VecInsert(@, pos, child)]

\* takeChild that moves the slot out and forgets to erase it
takeChild_keepSlot(s, row) == [s EXCEPT ![row + 1] = NULL]

\* takeChild that erases begin() instead of begin() + row
takeChild_eraseFirst(s, row) == VecErase([s EXCEPT ![row + 1] = NULL], 0)

\* TreeNode::takeChild, the child sequence afterwards: std::move(*it) leaves
\* a null slot at row, erase(it) removes that slot
takeChildNodes(s, row) == VecErase([s EXCEPT ![row + 1] = NULL], row)

\* TreeNode::takeChild, the node returned
takeChildRet(s, row) == s[row + 1]

\* TreeNode::takeChild: the heap afterwards
takeChild(h, p, row) ==
    [h EXCEPT !.children[p] = takeChildNodes(@, row)]

\* TreeNode::childCount
childCount(h, n) == Len(h.children[n])

\* TreeNode::child
child(h, n, row) ==
    IF row >= 0 /\ row < childCount(h, n) THEN h.children[n][row + 1] ELSE NULL

\* TreeNode::columnCount
columnCount(h, n) == Len(h.data[n])

\* TreeNode::parentNode
parentNode(h, n) == h.parent[n]

\* TreeNode::row: the results the call can produce.  A parent reference to
\* a destroyed node is a dangling read; a node missing from its parent's
\* sequence fails Q_ASSERT(false) and gives -1.
row(h, n) ==
    IF h.parent[n] = NULL THEN {0}
    ELSE IF h.parent[n] \notin h.live THEN -1..MaxNode
    ELSE {IndexOf(h.children[h.parent[n]], n)}

\* the nodes a unique_ptr to n owns: n and everything below it
RECURSIVE Subtree(_, _)
Subtree(h, n) ==
    {n} \cup UNION {Subtree(h, h.children[n][i]) :
                        i \in {j \in 1..Len(h.children[n]) : h.children[n][j] # NULL}}

\* ~unique_ptr<TreeNode>: n and the nodes below it cease to exist
Destroy(h, n) ==
    LET dead == Subtree(h, n) IN
    [children |-> [x \in Nodes |-> IF x \in dead THEN <<>> ELSE h.children[x]],
     parent |-> [x \in Nodes |-> IF x \in dead THEN NULL ELSE h.parent[x]],
     data |-> [x \in Nodes |-> IF x \in dead THEN <<>> ELSE h.data[x]],
     live |-> h.live \ dead]

----------------------------------------------------------------------------
(* The TreeModel adapter.  The program of part 2 has two models, model 1   *)
(* filled from a text and model 2 empty; the root node of model m is at    *)
(* address m.                                                              *)

Models == {1, 2}

rootNode(m) == m

\* QCoreApplication::applicationPid() of this process and of another one
applicationPid == 7

otherPid == 8

\* QModelIndex: an invalid index, or (row, column, internalPointer)
InvalidIndex == [valid |-> FALSE, row |-> -1, column |-> -1, ptr |-> NULL]

createIndex(r, c, ptr) == [valid |-> TRUE, row |-> r, column |-> c, ptr |-> ptr]

\* TreeNode::row where the tree is consistent: the one value it returns
rowOf(h, n) == CHOOSE r \in row(h, n) : TRUE

\* TreeModel::nodeForIndex
nodeForIndex(m, index) == IF index.valid THEN index.ptr ELSE rootNode(m)

\* an indexForItem that gives the root node an index too
indexForItem_rootToo(h, m, node) == createIndex(rowOf(h, node), 0, node)

\* TreeModel::indexForItem
indexForItem(h, m, node) ==
    IF node # rootNode(m) THEN createIndex(rowOf(h, node), 0, node) ELSE InvalidIndex

\* TreeModel::rowCount
rowCount(h, m, parent) ==
    IF parent.column > 0 THEN 0 ELSE childCount(h, nodeForIndex(m, parent))

\* TreeModel::columnCount
modelColumnCount(h, m, parent) ==
    IF parent.valid THEN columnCount(h, parent.ptr) ELSE columnCount(h, rootNode(m))

\* QAbstractItemModel::hasIndex as called by TreeModel::index
hasIndex(h, m, r, c, parent) ==
    /\ r >= 0 /\ c >= 0
    /\ r < rowCount(h, m, parent)
    /\ c < modelColumnCount(h, m, parent)

\* TreeModel::index
index(h, m, r, c, parent) ==
    IF ~hasIndex(h, m, r, c, parent) THEN InvalidIndex
    ELSE LET childNode == child(h, nodeForIndex(m, parent), r) IN
         IF childNode # NULL THEN createIndex(r, c, childNode) ELSE InvalidIndex

\* TreeModel::parent
parent(h, m, idx) ==
    IF ~idx.valid THEN InvalidIndex
    ELSE indexForItem(h, m, parentNode(h, idx.ptr))

\* QModelIndex::siblingAtColumn(0) as used by dropMimeData
siblingAtColumn0(h, m, idx) ==
    IF ~idx.valid THEN InvalidIndex
    ELSE IF idx.column = 0 THEN idx
    ELSE index(h, m, idx.row, 0, parent(h, m, idx))

\* the nodes of model m that have an index (all but the root)
ModelNodes(h, m) == Subtree(h, rootNode(m)) \ {rootNode(m)}

\* the indexes a view of model m can pass as a drop target or selection
ModelIndexes(h, m) ==
    UNION {{createIndex(rowOf(h, n), c, n) : c \in 0..(columnCount(h, h.parent[n]) - 1)} :
              n \in ModelNodes(h, m)}

----------------------------------------------------------------------------
(* TreeModel::setupModelData.  A line is its indentation and its column    *)
(* strings; a blank line has no column strings.                            *)

Line(position, columnData) == [position |-> position, columnData |-> columnData]

\* a loop that pops at most one entry
popState_once(state, position) ==
    IF position < state[Len(state)].indentation /\ Len(state) > 0
    THEN SubSeq(state, 1, Len(state) - 1)
    ELSE state

\* the while loop that pops entries indented deeper than the line
RECURSIVE popState(_, _)
popState(state, position) ==
    IF position < state[Len(state)].indentation /\ Len(state) > 0
    THEN popState(SubSeq(state, 1, Len(state) - 1), position)
    ELSE state

\* the body of the for loop for one line: the heap and the stack afterwards
setupLine(h, state, line) ==
    IF line.columnData = <<>> THEN [heap |-> h, state |-> state]
    ELSE
      LET back == state[Len(state)]
          state2 ==
            IF line.position > back.indentation
            THEN IF childCount(h, back.parent) > 0
                 THEN Append(state, [parent |-> child(h, back.parent, childCount(h, back.parent) - 1),
                                     indentation |-> line.position])
                 ELSE state
            ELSE popState(state, line.position)
          lastParent == state2[Len(state2)].parent
          a == NewAddress(h)
      IN [heap |-> appendChild(Construct(h, a, line.columnData, lastParent), lastParent, a),
          state |-> state2]

RECURSIVE setupLines(_, _, _, _)
setupLines(h, state, lines, i) ==
    IF i > Len(lines) THEN h
    ELSE LET s == setupLine(h, state, lines[i]) IN setupLines(s.heap, s.state, lines, i + 1)

\* TreeModel::setupModelData(lines, parent)
setupModelData(h, lines, root) ==
    setupLines(h, <<[parent |-> root, indentation |-> 0]>>, lines, 1)

\* the lines a text is made of: top-level and indented lines with one or
\* two columns, and a blank line
LineSet ==
    {Line(0, <<"A">>), Line(0, <<"B", "b">>), Line(4, <<"A">>), Line(4, <<"B", "b">>),
     Line(2, <<>>)}

\* the texts model 1 is constructed from
Texts == UNION {[1..k -> LineSet] : k \in 0..MaxLines}

----------------------------------------------------------------------------
(* Drag payloads of the tree model: a QMimeData with one optional format   *)
(* whose bytes are a stream of integers.                                   *)

MimeData(hasFormat, fields) == [hasFormat |-> hasFormat, fields |-> fields]

\* QDataStream >> integer: the i-th field, or 0 when the stream has ended
readField(fields, i) == IF i <= Len(fields) THEN fields[i] ELSE 0

\* the deduplication loop of TreeModel::mimeData
RECURSIVE draggedNodes(_, _)
draggedNodes(indexes, acc) ==
    IF indexes = <<>> THEN acc
    ELSE LET node == Head(indexes).ptr IN
         draggedNodes(Tail(indexes),
                      IF node \in Range(acc) THEN acc ELSE Append(acc, node))

\* TreeModel::mimeData
mimeData(indexes) ==
    LET dragged == draggedNodes(indexes, <<>>) IN
    MimeData(TRUE, <<applicationPid, Len(dragged)>> \o dragged)

\* the indexes of all columns of the given nodes, as a tree view selects rows
RECURSIVE rowIndexes(_, _)
rowIndexes(h, nodes) ==
    IF nodes = <<>> THEN <<>>
    ELSE LET n == Head(nodes) IN
         [c \in 1..columnCount(h, h.parent[n]) |-> createIndex(rowOf(h, n), c - 1, n)]
            \o rowIndexes(h, Tail(nodes))

----------------------------------------------------------------------------
(* TreeNode::clone, which dropMimeData calls: a deep copy of the node, its *)
(* column values and its subtree, not yet owned by any parent.  The result *)
(* is [ok, heap, node]; ok is FALSE when there is no free address left.    *)

RECURSIVE clone(_, _)
RECURSIVE cloneChildren(_, _, _, _)
clone(h, n) ==
    IF h.live = Nodes THEN [ok |-> FALSE, heap |-> h, node |-> NULL]
    ELSE LET a == NewAddress(h) IN
         cloneChildren(Construct(h, a, h.data[n], NULL), a, h.children[n], 1)

cloneChildren(h, copy, kids, i) ==
    IF i > Len(kids) THEN [ok |-> TRUE, heap |-> h, node |-> copy]
    ELSE LET c == clone(h, kids[i]) IN
         IF ~c.ok THEN c
         ELSE cloneChildren(insertChild(c.heap, copy, childCount(c.heap, copy), c.node),
                            copy, kids, i + 1)

\* what a read through a null or dangling TreeNode pointer can give: the
\* process dies, or the read yields an empty node
UBOutcomes == {"crash", "garbage"}

----------------------------------------------------------------------------
(* TreeModel::dropMimeData *)

\* the row the loop starts at
dropRow(h, m, r, parentIdx) ==
    IF r = -1
    THEN IF parentIdx.valid THEN 0 ELSE rowCount(h, m, InvalidIndex)
    ELSE r

\* one pass of the loop with ++row left out
dropStep_sameRow(r) == r

\* ++row at the end of one pass of the loop
dropStep(r) == r + 1

\* the for loop: decode an address, announce, clone, insert, announce the end.
\* The result is [status, heap, log]; status "nomem" when the pool is exhausted.
RECURSIVE dropLoop(_, _, _, _, _, _, _, _, _)
dropLoop(h, m, parentIdx, fields, count, i, r, log, ub) ==
    IF i >= count THEN [status |-> "true", heap |-> h, log |-> log]
    ELSE
      LET nodePtr == readField(fields, 3 + i)
          parentN == nodeForIndex(m, parentIdx)
          begin == <<"beginInsertRows", nodeForIndex(m, siblingAtColumn0(h, m, parentIdx)), r, r>>
      IN
      IF nodePtr \notin h.live
      THEN IF ub = "crash"
           THEN [status |-> "crash", heap |-> h,
                 log |-> log \o <<begin, <<"deref", nodePtr, 0, 0>>>>]
           ELSE IF h.live = Nodes THEN [status |-> "nomem", heap |-> h, log |-> log]
           ELSE LET a == NewAddress(h) IN
                dropLoop(insertChild(Construct(h, a, <<>>, NULL), parentN, r, a),
                         m, parentIdx, fields, count, i + 1, dropStep(r),
                         log \o <<begin, <<"deref", nodePtr, 0, 0>>,
                                  <<"insertChild", parentN, r, a>>,
                                  <<"endInsertRows", 0, 0, 0>>>>, ub)
      ELSE LET c == clone(h, nodePtr) IN
           IF ~c.ok THEN [status |-> "nomem", heap |-> h, log |-> log]
           ELSE dropLoop(insertChild(c.heap, parentN, r, c.node),
                         m, parentIdx, fields, count, i + 1, dropStep(r),
                         log \o <<begin, <<"deref", nodePtr, 0, 0>>,
                                  <<"insertChild", parentN, r, c.node>>,
                                  <<"endInsertRows", 0, 0, 0>>>>, ub)

\* dropMimeData without the sender check
senderAccepted_any(senderPid) == TRUE

\* the sender check of dropMimeData
senderAccepted(senderPid) == senderPid = applicationPid

\* TreeModel::dropMimeData(mimeData, action, row, column, parent) on model m:
\* [status, heap, log]
dropMimeData(h, m, data, r, parentIdx, ub) ==
    IF ~data.hasFormat THEN [status |-> "false", heap |-> h, log |-> <<>>]
    ELSE IF ~senderAccepted(readField(data.fields, 1))
    THEN [status |-> "false", heap |-> h, log |-> <<>>]
    ELSE dropLoop(h, m, parentIdx, data.fields, readField(data.fields, 2), 0,
                  dropRow(h, m, r, parentIdx), <<>>, ub)

----------------------------------------------------------------------------
(* TreeModel::removeRows and TreeModel::removeNode *)

\* a loop that takes row + i in its i-th pass
removedRow_advancing(r, i) == r + i

\* the row the i-th pass of the loop of removeRows takes: always row
removedRow(r, i) == r

\* the takeChild loop of removeRows; every returned node is destroyed at once
RECURSIVE removeLoop(_, _, _, _, _)
removeLoop(h, p, r, count, i) ==
    IF i >= count THEN [heap |-> h, log |-> <<>>]
    ELSE LET at == removedRow(r, i)
             taken == child(h, p, at)
             rest == removeLoop(IF taken = NULL THEN h ELSE Destroy(takeChild(h, p, at), taken),
                                p, r, count, i + 1)
         IN [heap |-> rest.heap, log |-> <<<<"takeChild", p, at, taken>>>> \o rest.log]

\* a last row announced one too far
lastRemovedRow_offByOne(r, count) == r + count

\* the last row removeRows announces to beginRemoveRows
lastRemovedRow(r, count) == r + count - 1

\* TreeModel::removeRows(row, count, parent) on model m: [status, heap, log]
removeRows(h, m, r, count, parentIdx) ==
    LET parentN == nodeForIndex(m, parentIdx)
        body == removeLoop(h, parentN, r, count, 0)
    IN [status |-> "true", heap |-> body.heap,
        log |-> <<<<"beginRemoveRows", nodeForIndex(m, parentIdx), r, lastRemovedRow(r, count)>>>>
                \o body.log \o <<<<"endRemoveRows", 0, 0, 0>>>>]

\* the assertions at the head of removeRows
removeRowsAsserts(h, m, r, count, parentIdx) ==
    /\ r >= 0
    /\ r <= childCount(h, nodeForIndex(m, parentIdx)) - count

\* TreeModel::removeNode(node) on model m: [status, heap, log, node]
removeNode(h, m, node) ==
    LET r == rowOf(h, node)
        idx == indexForItem(h, m, node)
        owner == parentNode(h, node)
        taken == takeChildRet(h.children[owner], r)
    IN [status |-> "true", heap |-> takeChild(h, owner, r), node |-> taken,
        log |-> <<<<"beginRemoveRows", nodeForIndex(m, parent(h, m, idx)), r, r>>,
                  <<"takeChild", owner, r, taken>>,
                  <<"endRemoveRows", 0, 0, 0>>>>]

----------------------------------------------------------------------------
(* The record of the last call *)

NoCall == [op |-> "none", node |-> NULL, pos |-> -1, arg |-> NULL,
           ret |-> NULL, pre |-> <<>>, log |-> <<>>]

Call(op, node, pos, arg, ret, pre, log) ==
    [op |-> op, node |-> node, pos |-> pos, arg |-> arg,
     ret |-> ret, pre |-> pre, log |-> log]

\* no drag in progress
NoDrag == [phase |-> "idle", source |-> NULL, nodes |-> <<>>, data |-> NULL,
           action |-> "none", accepted |-> FALSE]

\* the programs without email widgets leave the widget state empty
NoWidgets ==
    /\ m_emails = <<>>
    /\ m_folder = NULL
    /\ emailItems = <<>>
    /\ counts = <<>>
    /\ clicks = 0

\* the programs without a CountryModel
NoCountries == m_data = <<>>

\* the programs without a tree leave the node store empty
NoTree ==
    /\ m_childNodes = EmptyHeap.children
    /\ m_parentNode = EmptyHeap.parent
    /\ m_itemData = EmptyHeap.data
    /\ live = {}
    /\ held = {}
    /\ net = [n \in Nodes |-> 0]

----------------------------------------------------------------------------
(* Program "treenode": a caller driving the TreeNode interface directly.   *)

InitNode ==
    /\ program = "treenode"
    /\ LET h == Construct(EmptyHeap, 1, <<"Title", "Summary">>, NULL) IN
        /\ m_childNodes = h.children
        /\ m_parentNode = h.parent
        /\ m_itemData = h.data
        /\ live = h.live
    /\ held = {1}
    /\ net = [n \in Nodes |-> 0]
    /\ NoWidgets
    /\ NoCountries
    /\ drag = NoDrag
    /\ last = NoCall
    /\ calls = 0

\* std::make_unique<TreeNode>(data, parent): the caller holds the new node
NewNode(data, parentArg) ==
    /\ program = "treenode"
    /\ Cardinality(live) < MaxStore
    /\ Cardinality(held \ {1}) < MaxHeld
    /\ LET a == NewAddress(Heap) IN
        /\ SetHeap(Construct(Heap, a, data, parentArg))
        /\ held' = held \cup {a}
        /\ net' = [net EXCEPT ![a] = 0]
        /\ last' = Call("new", a, -1, parentArg, a, <<>>, <<>>)
    /\ calls < MaxCalls
    /\ calls' = calls + 1
    /\ UNCHANGED <<program, m_data, widgetVars, drag>>

\* p->appendChild(std::move(c)) for a node c the caller holds
AppendChild(p, c) ==
    /\ program = "treenode"
    /\ c \in held /\ p \in live /\ p \notin Subtree(Heap, c)
    /\ SetHeap(appendChild(Heap, p, c))
    /\ held' = held \ {c}
    /\ net' = [net EXCEPT ![p] = @ + 1]
    /\ last' = Call("appendChild", p, -1, c, NULL, <<>>, <<>>)
    /\ calls < MaxCalls
    /\ calls' = calls + 1
    /\ UNCHANGED <<program, m_data, widgetVars, drag>>

\* p->insertChild(pos, std::move(c)) with 0 <= pos <= childCount().  When c is
\* the child the preceding call detached from p, the record keeps the child
\* sequence p had before the detach.
InsertChild(p, pos, c) ==
    /\ program = "treenode"
    /\ c \in held /\ p \in live /\ p \notin Subtree(Heap, c)
    /\ pos \in 0..childCount(Heap, p)
    /\ SetHeap(insertChild(Heap, p, pos, c))
    /\ held' = held \ {c}
    /\ net' = [net EXCEPT ![p] = @ + 1]
    /\ last' = Call("insertChild", p, pos, c, NULL,
                    IF last.op = "takeChild" /\ last.node = p /\ last.ret = c
                    THEN last.pre ELSE <<>>, <<>>)
    /\ calls < MaxCalls
    /\ calls' = calls + 1
    /\ UNCHANGED <<program, m_data, widgetVars, drag>>

\* auto c = p->takeChild(r) with 0 <= r < childCount(): the caller holds c
TakeChild(p, r) ==
    /\ program = "treenode"
    /\ p \in live
    /\ r \in 0..(childCount(Heap, p) - 1)
    /\ Cardinality(held \ {1}) < MaxHeld
    /\ LET c == takeChildRet(m_childNodes[p], r) IN
        /\ SetHeap(takeChild(Heap, p, r))
        /\ held' = IF c = NULL THEN held ELSE held \cup {c}
        /\ last' = Call("takeChild", p, r, NULL, c, m_childNodes[p], <<>>)
    /\ net' = [net EXCEPT ![p] = @ - 1]
    /\ calls < MaxCalls
    /\ calls' = calls + 1
    /\ UNCHANGED <<program, m_data, widgetVars, drag>>

\* a unique_ptr the caller holds goes out of scope (the root is kept)
DestroyHeld(c) ==
    /\ program = "treenode"
    /\ c \in held /\ c # 1
    /\ SetHeap(Destroy(Heap, c))
    /\ held' = held \ {c}
    /\ net' = [n \in Nodes |-> IF n \in Subtree(Heap, c) THEN 0 ELSE net[n]]
    /\ last' = Call("destroy", c, -1, NULL, NULL, <<>>, <<>>)
    /\ calls < MaxCalls
    /\ calls' = calls + 1
    /\ UNCHANGED <<program, m_data, widgetVars, drag>>

NextNode ==
    \/ \E parentArg \in live \cup {NULL} : NewNode(<<"A">>, parentArg)
    \/ \E p \in Nodes, c \in Nodes : AppendChild(p, c)
    \/ \E p \in Nodes, pos \in 0..MaxNode, c \in Nodes : InsertChild(p, pos, c)
    \/ \E p \in Nodes, r \in 0..MaxNode : TakeChild(p, r)
    \/ \E c \in Nodes : DestroyHeld(c)

SpecNode == InitNode /\ [][NextNode]_vars

----------------------------------------------------------------------------
(* Program "treemodel": the two tree models of part 2 with their handlers  *)
(* called as a view calls them.                                            *)

\* sequences of at most MaxDrag distinct nodes of the two models
NodeSeqs(h) ==
    LET all == ModelNodes(h, 1) \cup ModelNodes(h, 2) IN
    {q \in UNION {[1..k -> all] : k \in 0..MaxDrag} :
        \A i, j \in 1..Len(q) : i # j => q[i] # q[j]}

\* the payloads a drop can carry: the encodings of node selections, the same
\* cut short, the same sent by another process, and data of another format
Payloads(h) ==
    LET good == {mimeData(rowIndexes(h, nodes)) : nodes \in NodeSeqs(h)} IN
    good
    \cup UNION {{MimeData(TRUE, SubSeq(d.fields, 1, k)) : k \in 0..(Len(d.fields) - 1)} : d \in good}
    \cup {MimeData(TRUE, <<otherPid>> \o Tail(d.fields)) : d \in good}
    \cup {MimeData(FALSE, <<>>)}

\* the outcomes to consider for a payload: a choice only where the loop
\* reads through an address that names no node
UBChoices(h, data) ==
    IF \A i \in 0..(readField(data.fields, 2) - 1) : readField(data.fields, 3 + i) \in h.live
    THEN {"crash"} ELSE UBOutcomes

InitTrees ==
    /\ \E text \in Texts :
        LET roots == Construct(Construct(EmptyHeap, 1, <<"Title", "Summary">>, NULL),
                               2, <<"Title", "Summary">>, NULL)
            h == setupModelData(roots, text, rootNode(1))
        IN  /\ m_childNodes = h.children
            /\ m_parentNode = h.parent
            /\ m_itemData = h.data
            /\ live = h.live
    /\ held = {1, 2}
    /\ net = [n \in Nodes |-> 0]
    /\ NoWidgets
    /\ NoCountries
    /\ drag = NoDrag
    /\ last = [NoCall EXCEPT !.ret = "none"]
    /\ calls = 0

InitModel == program = "treemodel" /\ InitTrees

ModelRunning ==
    /\ program = "treemodel"
    /\ last.ret \notin {"crash", "assert"}
    /\ calls < MaxModelCalls

\* a view of model m delivers a drop
DropMimeData(m, data, r, parentIdx, ub) ==
    /\ ModelRunning
    /\ r \in -1..rowCount(Heap, m, parentIdx)
    /\ LET res == dropMimeData(Heap, m, data, r, parentIdx, ub) IN
        /\ res.status # "nomem"
        /\ SetHeap(res.heap)
        /\ last' = Call("dropMimeData", nodeForIndex(m, parentIdx), r, data,
                        res.status, <<>>, res.log)
    /\ calls' = calls + 1
    /\ UNCHANGED <<program, m_data, held, net, widgetVars, drag>>

\* removeRows is called on model m; a call that fails one of the assertions
\* ends the process there
RemoveRows(m, r, count, parentIdx) ==
    /\ ModelRunning
    /\ LET res == IF removeRowsAsserts(Heap, m, r, count, parentIdx)
                  THEN removeRows(Heap, m, r, count, parentIdx)
                  ELSE [status |-> "assert", heap |-> Heap, log |-> <<>>]
       IN
        /\ SetHeap(res.heap)
        /\ last' = Call("removeRows", nodeForIndex(m, parentIdx), r, count,
                        res.status, m_childNodes[nodeForIndex(m, parentIdx)], res.log)
    /\ calls' = calls + 1
    /\ UNCHANGED <<program, m_data, held, net, widgetVars, drag>>

\* model m removes one node; the unique_ptr it returns is dropped
RemoveNode(m, node) ==
    /\ ModelRunning
    /\ node \in ModelNodes(Heap, m)
    /\ LET res == removeNode(Heap, m, node) IN
        /\ SetHeap(Destroy(res.heap, res.node))
        /\ last' = Call("removeNode", parentNode(Heap, node), rowOf(Heap, node), node,
                        res.status, <<>>, res.log)
    /\ calls' = calls + 1
    /\ UNCHANGED <<program, m_data, held, net, widgetVars, drag>>

NextModel ==
    \/ /\ ModelRunning
       /\ \E m \in Models : \E parentIdx \in ModelIndexes(Heap, m) \cup {InvalidIndex} :
            \E r \in -1..rowCount(Heap, m, parentIdx), data \in Payloads(Heap) :
                \E ub \in UBChoices(Heap, data) : DropMimeData(m, data, r, parentIdx, ub)
    \/ /\ ModelRunning
       /\ \E m \in Models : \E parentIdx \in ModelIndexes(Heap, m) \cup {InvalidIndex} :
            \E r \in 0..MaxNode, count \in 0..MaxNode :
                /\ removeRowsAsserts(Heap, m, r, count, parentIdx)
                /\ RemoveRows(m, r, count, parentIdx)
    \/ /\ ModelRunning
       /\ \E m \in Models : \E node \in ModelNodes(Heap, m) : RemoveNode(m, node)

Spec == InitModel /\ [][NextModel]_vars

\* a caller that passes any rows and counts to removeRows, in and out of range
NextRemove ==
    /\ ModelRunning
    /\ \E m \in Models : \E parentIdx \in ModelIndexes(Heap, m) \cup {InvalidIndex} :
         \E r \in -1..(rowCount(Heap, m, parentIdx) + 1),
            count \in -1..(rowCount(Heap, m, parentIdx) + 1) :
                RemoveRows(m, r, count, parentIdx)

SpecRemove == InitModel /\ [][NextRemove]_vars

----------------------------------------------------------------------------
(* Program "treeviews": the main window of part 2, two tree views set up   *)
(* by setupViewForDnD (drag and drop both enabled, move by default), each  *)
(* on its own TreeModel.  A drag is a session of the source view: it asks  *)
(* its model for the payload, a view delivers the drop, and when the drag  *)
(* has ended the source view removes the dragged rows if a move was done.  *)

InitDrag == program = "treeviews" /\ InitTrees

DragRunning ==
    /\ program = "treeviews"
    /\ last.ret # "crash"

\* the view refuses a move onto one of the rows it is dragging or below one
RECURSIVE droppingOnItself(_, _, _, _)
droppingOnItself(h, m, idx, selected) ==
    /\ idx.valid
    /\ \/ idx.ptr \in selected
       \/ droppingOnItself(h, m, parent(h, m, idx), selected)

\* the source view removes rows when the drag ends as an accepted move
dragRemoves_always(accepted, action) == TRUE

\* the source view removes rows when the drag ends as an accepted move
dragRemoves(accepted, action) == accepted /\ action = "MoveAction"

\* the source view removes the selected rows, last first: [heap, log]
RECURSIVE clearOrRemove(_, _, _, _)
clearOrRemove(h, m, nodes, i) ==
    IF i = 0 THEN [heap |-> h, log |-> <<>>]
    ELSE IF nodes[i] \notin h.live THEN clearOrRemove(h, m, nodes, i - 1)
    ELSE LET idx == indexForItem(h, m, nodes[i])
             res == removeRows(h, m, idx.row, 1, parent(h, m, idx))
             rest == clearOrRemove(res.heap, m, nodes, i - 1)
         IN [heap |-> rest.heap, log |-> res.log \o rest.log]

\* the view of model m starts dragging its selected rows
StartDrag(m, nodes) ==
    /\ DragRunning
    /\ drag.phase = "idle"
    /\ calls < MaxDrags
    /\ nodes # <<>>
    /\ \A i \in 1..Len(nodes) : nodes[i] \in ModelNodes(Heap, m)
    /\ drag' = [phase |-> "dragging", source |-> m, nodes |-> nodes,
                data |-> mimeData(rowIndexes(Heap, nodes)),
                action |-> "none", accepted |-> FALSE, before |-> Cardinality(live)]
    /\ last' = Call("mimeData", rootNode(m), -1, nodes, "none", <<>>, <<>>)
    /\ calls' = calls + 1
    /\ UNCHANGED <<program, m_data, treeVars, widgetVars>>

\* the dragged rows are dropped on the view of model m
Drop(m, r, parentIdx, action) ==
    /\ DragRunning
    /\ drag.phase = "dragging"
    /\ r \in -1..rowCount(Heap, m, parentIdx)
    /\ ~(action = "MoveAction" /\ m = drag.source
         /\ droppingOnItself(Heap, m, parentIdx, Range(drag.nodes)))
    /\ LET res == dropMimeData(Heap, m, drag.data, r, parentIdx, "crash") IN
        /\ res.status # "nomem"
        /\ SetHeap(res.heap)
        /\ last' = Call("dropMimeData", nodeForIndex(m, parentIdx), r, drag.data,
                        res.status, <<>>, res.log)
        /\ drag' = [drag EXCEPT !.phase = "dropped", !.action = action,
                                !.accepted = (res.status = "true")]
    /\ UNCHANGED <<calls, program, m_data, held, net, widgetVars>>

\* the drag ends, after a drop or without one
FinishDrag ==
    /\ DragRunning
    /\ drag.phase \in {"dragging", "dropped"}
    /\ IF dragRemoves(drag.accepted, drag.action)
       THEN LET res == clearOrRemove(Heap, drag.source, drag.nodes, Len(drag.nodes)) IN
            /\ SetHeap(res.heap)
            /\ last' = Call("removeRows", rootNode(drag.source), -1, drag.nodes,
                            "true", <<>>, res.log)
       ELSE /\ last' = Call("dragFinished", rootNode(drag.source), -1, drag.nodes,
                            "none", <<>>, <<>>)
            /\ UNCHANGED <<m_childNodes, m_parentNode, m_itemData, live>>
    /\ drag' = NoDrag
    /\ UNCHANGED <<calls, program, m_data, held, net, widgetVars>>

NextDrag ==
    \/ /\ DragRunning
       /\ \E m \in Models : \E nodes \in NodeSeqs(Heap) : StartDrag(m, nodes)
    \/ /\ DragRunning
       /\ drag.phase = "dragging"
       /\ \E m \in Models : \E parentIdx \in ModelIndexes(Heap, m) \cup {InvalidIndex} :
            \E r \in -1..rowCount(Heap, m, parentIdx), action \in {"MoveAction", "CopyAction"} :
                Drop(m, r, parentIdx, action)
    \/ FinishDrag

SpecDrag == InitDrag /\ [][NextDrag]_vars

----------------------------------------------------------------------------
(* Programs "listwidget", "tablewidget" and "treewidget": a folders widget *)
(* that accepts drops and an emails widget that shows one folder and       *)
(* starts drags.  A folder's address is its position in m_emails; an       *)
(* item's address is the number fillEmailsList created it with.            *)

WidgetPrograms == {"listwidget", "tablewidget", "treewidget"}

\* the programs whose folders widget has a count column
HasCounts(prog) == prog \in {"tablewidget", "treewidget"}

\* TopLevel::m_emails as initialised
InitialEmails ==
    << <<"Call your mother", "Customer request", "Urgent", "Spam 1">>,
       <<"Old customer">>,
       <<"Old email 1", "Old email 2", "Old email 3", "Old email 4">>,
       <<"Old spam">>,
       <<>>,
       <<"Clean the garage">> >>

\* EmailsListWidget::fillEmailsList: one new item per email of the folder
fillEmailsList(emails) == [i \in 1..Len(emails) |-> [ptr |-> i, text |-> emails[i]]]

\* FoldersTableWidget::updateCounts
updateCounts(folders) == [f \in 1..Len(folders) |-> Len(folders[f])]

\* QListWidget::row(item): the row of the item with this address, or -1
itemRow(items, ptr) ==
    IF \E i \in 1..Len(items) : items[i].ptr = ptr
    THEN (CHOOSE i \in 1..Len(items) : items[i].ptr = ptr) - 1
    ELSE -1

\* EmailsListWidget::mimeData: pid, source folder, number of items, items
emailsMimeData(folder, itemPtrs) ==
    MimeData(TRUE, <<applicationPid, folder, Len(itemPtrs)>> \o itemPtrs)

\* QMimeData::data(s_emailsMimeType): empty when the format is absent
encodedData(data) == IF data.hasFormat THEN data.fields ELSE <<>>

\* QDataStream >> QList<qintptr>: the elements, or none when the stream ends early
readList(fields, i) ==
    LET n == readField(fields, i) IN
    IF Len(fields) >= i + n THEN SubSeq(fields, i + 1, i + n) ELSE <<>>

\* a handler that removes the last email of the source folder instead
removeAt_last(emails, r) == SubSeq(emails, 1, Len(emails) - 1)

\* sourceFolder->emails.removeAt(row of the dragged item)
removeAt(emails, r) == VecErase(emails, r)

\* the loop over the decoded item addresses: [status, emails, items, log]
RECURSIVE dropEmails(_, _, _, _, _, _, _, _)
dropEmails(folders, items, dest, source, ptrs, i, action, log) ==
    IF i > Len(ptrs)
    THEN [status |-> "false", emails |-> folders, items |-> items, log |-> log]
    ELSE
      LET ptr == ptrs[i]
          r == itemRow(items, ptr)
      IN
      IF r = -1
      THEN [status |-> "crash", emails |-> folders, items |-> items,
            log |-> Append(log, <<"deref", ptr, 0, 0>>)]
      ELSE
        LET added == [folders EXCEPT ![dest] = Append(@, items[r + 1].text)]
            log1 == log \o <<<<"deref", ptr, 0, 0>>, <<"append", dest, 0, 0>>>>
        IN
        IF action # "MoveAction"
        THEN dropEmails(added, items, dest, source, ptrs, i + 1, action, log1)
        ELSE IF source \notin 1..Len(folders) \/ r >= Len(added[source])
        THEN [status |-> "crash", emails |-> added, items |-> items, log |-> log1]
        ELSE dropEmails([added EXCEPT ![source] = removeAt(@, r)], VecErase(items, r),
                        dest, source, ptrs, i + 1, action,
                        log1 \o <<<<"removeAt", source, r, 0>>, <<"deleteItem", ptr, 0, 0>>>>)

\* a folders widget that skips the sender check
emailSenderAccepted_any(senderPid) == TRUE

\* the sender check of the folders widgets
emailSenderAccepted(senderPid) == senderPid = applicationPid

\* a folders widget that accepts a drop onto the source folder
sameEmailFolder_never(sourceFolder, destFolder) == FALSE

\* the self-drop test of the folders widgets: sourceFolder == destFolder
sameEmailFolder(sourceFolder, destFolder) == sourceFolder = destFolder

\* FoldersListWidget::dropMimeData, FoldersTableWidget::dropMimeData and
\* FoldersTreeWidget::dropMimeData: [status, emails, items, counts, log]
widgetDropMimeData(prog, folders, items, shown, dest, data, action) ==
    LET fields == encodedData(data)
        same == [status |-> "false", emails |-> folders, items |-> items,
                 counts |-> shown, log |-> <<>>]
    IN
    IF fields = <<>> THEN same
    ELSE IF ~emailSenderAccepted(readField(fields, 1)) THEN same
    ELSE IF sameEmailFolder(readField(fields, 2), dest) THEN same
    ELSE
      LET res == dropEmails(folders, items, dest, readField(fields, 2),
                            readList(fields, 3), 1, action, <<>>)
      IN [status |-> res.status, emails |-> res.emails, items |-> res.items,
          counts |-> IF HasCounts(prog) /\ res.status # "crash"
                     THEN updateCounts(res.emails) ELSE shown,
          log |-> IF HasCounts(prog) /\ res.status # "crash"
                  THEN Append(res.log, <<"updateCounts", 0, 0, 0>>) ELSE res.log]

InitWidgets ==
    /\ program \in WidgetPrograms
    /\ NoTree
    /\ NoCountries
    /\ drag = NoDrag
    /\ m_emails = InitialEmails
    /\ m_folder = 1
    /\ emailItems = fillEmailsList(InitialEmails[1])
    /\ counts = IF HasCounts(program) THEN updateCounts(InitialEmails) ELSE <<>>
    /\ last = [op |-> "none", dest |-> NULL, action |-> "none", arg |-> MimeData(FALSE, <<>>),
               ret |-> "none", log |-> <<>>]
    /\ calls = 0
    /\ clicks = 0

WidgetsRunning ==
    /\ program \in WidgetPrograms
    /\ last.ret # "crash"

\* the itemClicked connection: the emails widget shows the clicked folder
FolderClicked(f) ==
    /\ WidgetsRunning
    /\ clicks < MaxClicks
    /\ clicks' = clicks + 1
    /\ m_folder' = f
    /\ emailItems' = fillEmailsList(m_emails[f])
    /\ last' = [op |-> "itemClicked", dest |-> f, action |-> "none",
                arg |-> MimeData(FALSE, <<>>), ret |-> "none", log |-> <<>>]
    /\ UNCHANGED <<calls, program, m_data, treeVars, drag, m_emails, counts>>

\* sequences of at most MaxDrag distinct items of the emails widget
ItemSeqs ==
    LET all == {emailItems[i].ptr : i \in 1..Len(emailItems)} IN
    {q \in UNION {[1..k -> all] : k \in 0..MaxDrag} :
        \A i, j \in 1..Len(q) : i # j => q[i] # q[j]}

\* the payloads a drop onto the folders widget can carry: the encoding of a
\* selection, and for the first rows the same from another process and
\* data of another format
EmailPayloads ==
    LET good == {emailsMimeData(m_folder, q) : q \in ItemSeqs}
        first == {emailsMimeData(m_folder, [i \in 1..k |-> emailItems[i].ptr]) :
                    k \in 0..(IF Len(emailItems) < MaxDrag THEN Len(emailItems) ELSE MaxDrag)}
    IN
    good
    \cup {MimeData(TRUE, <<otherPid>> \o Tail(d.fields)) : d \in first}
    \cup {MimeData(FALSE, d.fields) : d \in first}
    \cup {MimeData(TRUE, <<>>)}

\* a drag from the emails widget is dropped onto folder dest
WidgetDrop(dest, data, action) ==
    /\ WidgetsRunning
    /\ calls < MaxDrops
    /\ LET res == widgetDropMimeData(program, m_emails, emailItems, counts, dest, data, action) IN
        /\ m_emails' = res.emails
        /\ emailItems' = res.items
        /\ counts' = res.counts
        /\ last' = [op |-> "dropMimeData", dest |-> dest, action |-> action, arg |-> data,
                    ret |-> res.status, log |-> res.log]
    /\ calls' = calls + 1
    /\ UNCHANGED <<program, m_data, treeVars, drag, m_folder, clicks>>

NextWidgets ==
    \/ /\ WidgetsRunning
       /\ \E f \in 1..Len(m_emails) : FolderClicked(f)
    \/ /\ WidgetsRunning
       /\ \E dest \in 1..Len(m_emails), data \in EmailPayloads,
             action \in {"MoveAction", "CopyAction"} : WidgetDrop(dest, data, action)

SpecWidgets == InitWidgets /\ [][NextWidgets]_vars

\* the programs whose drop handlers decode addresses of this process
SpecDrop == (InitModel \/ InitWidgets) /\ [][NextModel \/ NextWidgets]_vars

----------------------------------------------------------------------------
(* Programs "modelview" and "treefolders": the email examples built on     *)
(* models.  FoldersModel is the drop side, a table of folders in the first *)
(* and a tree of folders in the second; EmailsModel is the drag side and   *)
(* shows the emails of one folder.  A folder's address is its position in  *)
(* m_emails, in the order of the initialiser; the hidden root is NULL.     *)

FolderPrograms == {"modelview", "treefolders"}

\* TopLevel::m_emails of the tree example, without the hidden root
InitialTreeEmails ==
    << <<"Call your mother", "Customer request", "Urgent", "Spam 1">>,
       <<"Old customer">>,
       <<>>,
       <<"Old 2023 email">>,
       <<"Old email 1", "Old email 2", "Old email 3", "Old email 4">>,
       <<"Old spam">>,
       <<>>,
       <<"Clean the garage">> >>

\* EmailFolder::folderName of every folder
folderName(prog) ==
    IF prog = "treefolders"
    THEN <<"Inbox", "Customers", "Archive", "2023", "2024", "Spam", "To do",
           "Will never be done">>
    ELSE <<"Inbox", "Customers", "Archive", "Spam", "To do", "Will never be done">>

\* EmailFolder::parentFolder of every folder, as setParentFolders leaves it
\* (the flat example has no folder below another)
parentFolder(prog) ==
    IF prog = "treefolders" THEN <<NULL, 1, NULL, 3, 3, NULL, NULL, NULL>>
    ELSE <<NULL, NULL, NULL, NULL, NULL, NULL>>

\* EmailFolder::subFolders of folder f (of the root when f is NULL), in order
subFolders(prog, f) ==
    LET all == [i \in 1..Len(parentFolder(prog)) |-> i] IN
    SelectSeq(all, LAMBDA g : parentFolder(prog)[g] = f)

\* FoldersModel::folderForIndex
folderForIndex(prog, idx) ==
    IF prog = "treefolders"
    THEN IF idx.valid THEN idx.ptr ELSE NULL
    ELSE idx.row + 1

\* the index a folders view has for cell (folder f, column c)
folderIndex(prog, f, c) ==
    createIndex(IndexOf(subFolders(prog, parentFolder(prog)[f]), f), c,
                IF prog = "treefolders" THEN f ELSE NULL)

\* all indexes a folders view can deliver a drop for: every cell, and the
\* invalid index for a drop outside the rows
FolderIndexes(prog) ==
    {folderIndex(prog, f, c) : f \in 1..Len(folderName(prog)), c \in 0..1}
        \cup {InvalidIndex}

\* the deduplication loop of EmailsModel::mimeData: the rows in order of
\* first appearance
RECURSIVE seenRows(_, _)
seenRows(indexes, acc) ==
    IF indexes = <<>> THEN acc
    ELSE seenRows(Tail(indexes),
                  IF Head(indexes).row \in Range(acc) THEN acc
                  ELSE Append(acc, Head(indexes).row))

\* a payload that holds the first selected email only
emailsModelMimeData_firstOnly(prog, folders, shown, indexes) ==
    MimeData(TRUE, <<folderName(prog)[shown], folders[shown][indexes[1].row + 1]>>)

\* EmailsModel::mimeData: the source folder's name, then the email texts
emailsModelMimeData(prog, folders, shown, indexes) ==
    LET rows == seenRows(indexes, <<>>) IN
    MimeData(TRUE, <<folderName(prog)[shown]>>
                   \o [i \in 1..Len(rows) |-> folders[shown][rows[i] + 1]])

\* a FoldersModel that compares nothing and accepts a drop onto the source
sameFolder_never(sourceName, destName) == FALSE

\* the self-drop test of FoldersModel::dropMimeData
sameFolder(sourceName, destName) == sourceName = destName

\* an appending loop that takes the folder name for an email too
decodedEmails_withName(fields) == fields

\* the strings the appending loop of dropMimeData reads after the folder name
decodedEmails(fields) == Tail(fields)

\* FoldersModel::Columns: the column that displays the number of emails
NumEmails == 1

\* FoldersModel::dropMimeData(mimeData, action, row, column, parent):
\* [status, emails, log]; a dataChanged entry of the log is
\* <<"dataChanged", folder, left column, right column>>
foldersDropMimeData(prog, folders, data, parentIdx) ==
    LET fields == encodedData(data)
        dest == folderForIndex(prog, parentIdx)
        same == [status |-> "false", emails |-> folders, log |-> <<>>]
    IN
    IF ~parentIdx.valid THEN same
    ELSE IF fields = <<>> THEN same
    ELSE IF sameFolder(fields[1], folderName(prog)[dest]) THEN same
    ELSE [status |-> "true",
          emails |-> [folders EXCEPT ![dest] = @ \o decodedEmails(fields)],
          log |-> <<<<"dataChanged", dest, parentIdx.column, parentIdx.column>>>>]

\* EmailsModel::removeRows(position, rows, parent): [emails, log]
RECURSIVE emailsRemoveLoop(_, _, _, _)
emailsRemoveLoop(emails, position, rows, i) ==
    IF i >= rows THEN emails
    ELSE emailsRemoveLoop(VecErase(emails, position), position, rows, i + 1)

emailsRemoveRows(folders, shown, position, rows) ==
    [emails |-> [folders EXCEPT ![shown] = emailsRemoveLoop(@, position, rows, 0)],
     log |-> <<<<"beginRemoveRows", shown, position, position + rows - 1>>,
               <<"endRemoveRows", 0, 0, 0>>>>]

\* the rows of a selection, highest first
RECURSIVE descending(_)
descending(rows) ==
    IF rows = {} THEN <<>>
    ELSE LET top == CHOOSE r \in rows : \A q \in rows : q <= r IN
         <<top>> \o descending(rows \ {top})

\* the emails view removes its selected rows after an accepted move; its
\* selection follows the rows, so each selected row is removed where it then is
RECURSIVE removeSelectedEmails(_, _, _, _)
removeSelectedEmails(folders, shown, rows, i) ==
    IF i > Len(rows) THEN [emails |-> folders, log |-> <<>>]
    ELSE LET res == emailsRemoveRows(folders, shown, rows[i], 1)
             rest == removeSelectedEmails(res.emails, shown, rows, i + 1)
         IN [emails |-> rest.emails, log |-> res.log \o rest.log]

InitFolders ==
    /\ program \in FolderPrograms
    /\ NoTree
    /\ NoCountries
    /\ drag = NoDrag
    /\ m_emails = IF program = "treefolders" THEN InitialTreeEmails ELSE InitialEmails
    /\ m_folder = 1
    /\ emailItems = <<>>
    /\ counts = <<>>
    /\ last = [op |-> "none", dest |-> NULL, action |-> "none", arg |-> MimeData(FALSE, <<>>),
               ret |-> "none", log |-> <<>>]
    /\ calls = 0
    /\ clicks = 0

FoldersRunning == program \in FolderPrograms

\* the clicked connection of the folders view: EmailsModel::setEmails
FolderViewClicked(idx) ==
    /\ FoldersRunning
    /\ drag.phase = "idle"
    /\ clicks < MaxClicks
    /\ idx.valid
    /\ clicks' = clicks + 1
    /\ m_folder' = folderForIndex(program, idx)
    /\ last' = [op |-> "clicked", dest |-> folderForIndex(program, idx), action |-> "none",
                arg |-> MimeData(FALSE, <<>>), ret |-> "none", log |-> <<>>]
    /\ UNCHANGED <<calls, program, m_data, treeVars, drag, m_emails, emailItems, counts>>

\* sequences of at most MaxDrag distinct rows of the emails view
RowSeqs ==
    LET all == 0..(Len(m_emails[m_folder]) - 1) IN
    {q \in UNION {[1..k -> all] : k \in 0..MaxDrag} :
        \A i, j \in 1..Len(q) : i # j => q[i] # q[j]}

\* the emails view starts a drag of its selected rows and a folders view
\* delivers the drop; rows is empty when the data comes from elsewhere
EmailsDrop(parentIdx, rows, data, action) ==
    /\ FoldersRunning
    /\ drag.phase = "idle"
    /\ calls < MaxDrops
    /\ LET res == foldersDropMimeData(program, m_emails, data, parentIdx) IN
        /\ m_emails' = res.emails
        /\ last' = [op |-> "dropMimeData", dest |-> folderForIndex(program, parentIdx),
                    action |-> action, arg |-> data, ret |-> res.status, log |-> res.log,
                    target |-> parentIdx]
        /\ drag' = [phase |-> "dropped", source |-> m_folder, nodes |-> rows, data |-> data,
                    action |-> action, accepted |-> (res.status = "true"),
                    before |-> m_emails]
    /\ calls' = calls + 1
    /\ UNCHANGED <<program, m_data, treeVars, m_folder, emailItems, counts, clicks>>

\* the drag ends: the emails view removes the dragged rows after an accepted move
EmailsDragFinished ==
    /\ FoldersRunning
    /\ drag.phase = "dropped"
    /\ IF dragRemoves(drag.accepted, drag.action)
       THEN LET res == removeSelectedEmails(m_emails, drag.source,
                                            descending(Range(drag.nodes)), 1) IN
            /\ m_emails' = res.emails
            /\ last' = [op |-> "removeRows", dest |-> drag.source, action |-> drag.action,
                        arg |-> drag.data, ret |-> "true", log |-> res.log]
       ELSE /\ last' = [op |-> "dragFinished", dest |-> drag.source, action |-> drag.action,
                        arg |-> drag.data, ret |-> "none", log |-> <<>>]
            /\ UNCHANGED m_emails
    /\ drag' = [drag EXCEPT !.phase = "idle"]
    /\ UNCHANGED <<calls, program, m_data, treeVars, m_folder, emailItems, counts, clicks>>

NextFolders ==
    \/ /\ FoldersRunning
       /\ \E idx \in FolderIndexes(program) : FolderViewClicked(idx)
    \/ /\ FoldersRunning
       /\ drag.phase = "idle"
       /\ calls < MaxDrops
       /\ \E parentIdx \in FolderIndexes(program), rows \in RowSeqs \ {<<>>},
             action \in {"MoveAction", "CopyAction"} :
            EmailsDrop(parentIdx, rows,
                       emailsModelMimeData(program, m_emails, m_folder,
                                           [i \in 1..Len(rows) |-> createIndex(rows[i], 0, NULL)]),
                       action)
    \/ /\ FoldersRunning
       /\ drag.phase = "idle"
       /\ calls < MaxDrops
       /\ \E parentIdx \in FolderIndexes(program), data \in {MimeData(FALSE, <<>>), MimeData(TRUE, <<>>)},
             action \in {"MoveAction", "CopyAction"} :
            EmailsDrop(parentIdx, <<>>, data, action)
    \/ EmailsDragFinished

SpecFolders == InitFolders /\ [][NextFolders]_vars

\* the five email-folder examples
SpecEmail == (InitWidgets \/ InitFolders) /\ [][NextWidgets \/ NextFolders]_vars

----------------------------------------------------------------------------
(* Program "main": the main function of an example with selectable         *)
(* variants, started with a list of command-line arguments.  arguments()   *)
(* is the program name followed by the words given; the result of main is  *)
(* the view class it created, whether it showed the window, whether it     *)
(* entered the event loop, and its return value ("exec" for the value of   *)
(* app.exec()).                                                            *)

VariantExamples ==
    {"reorder-with-itemwidgets", "reorder-with-model-view",
     "move-between-itemwidgets", "move-between-views-with-model-view",
     "drop-onto-items-with-model-view"}

\* the examples built on QListWidget, QTableWidget and QTreeWidget
ItemWidgetExamples == {"reorder-with-itemwidgets", "move-between-itemwidgets"}

Words == {"list", "table", "tree", "icons", "List", ""}

RECURSIVE WordLists(_)
WordLists(n) ==
    IF n = 0 THEN {<<>>}
    ELSE WordLists(n - 1)
             \cup {Append(ws, w) : ws \in {l \in WordLists(n - 1) : Len(l) = n - 1},
                                   w \in Words}

\* QCoreApplication::arguments()
arguments(example, words) == <<example>> \o words

\* args.size() > 1 ? args.at(1) : "list"
viewType_lastWord(args) == IF Len(args) > 1 THEN args[Len(args)] ELSE "list"

viewType(args) == IF Len(args) > 1 THEN args[2] ELSE "list"

\* the class of the views the branch for a variant word creates
viewClass(example, word) ==
    LET suffix == IF example \in ItemWidgetExamples THEN "Widget" ELSE "View"
    IN  CASE word = "list"  -> "QList" \o suffix
          [] word = "table" -> "QTable" \o suffix
          [] word = "tree"  -> "QTree" \o suffix

main(example, args) ==
    LET word == viewType(args)
    IN  IF word \in {"list", "table", "tree"}
        THEN [view |-> viewClass(example, word), shown |-> TRUE,
              loop |-> TRUE, ret |-> "exec"]
        ELSE [view |-> "none", shown |-> FALSE, loop |-> FALSE, ret |-> 1]

InitMain ==
    /\ program = "main"
    /\ calls = 0
    /\ NoTree
    /\ NoWidgets
    /\ NoCountries
    /\ drag = NoDrag
    /\ \E example \in VariantExamples, words \in WordLists(MaxWords) :
           last = Call("start", example, -1, arguments(example, words),
                       NULL, <<>>, <<>>)

Main ==
    /\ program = "main"
    /\ last.op = "start"
    /\ last' = Call("main", last.node, -1, last.arg,
                    main(last.node, last.arg), <<>>, <<>>)
    /\ calls' = calls + 1
    /\ UNCHANGED <<program, m_data, treeVars, widgetVars, drag>>

NextMain == Main

SpecMain == InitMain /\ [][NextMain]_vars

----------------------------------------------------------------------------
(* Program "reorder": the reordering example of part 1 built on a model.   *)
(* One CountryModel, model 1, in one view set to InternalMove.  A list     *)
(* view calls moveRows itself; the other views deliver the drop through    *)
(* dropMimeData, whose payload is the QSet<int> of the selected rows.      *)

CountryData(country, population) == [country |-> country, population |-> population]

\* the data main gives the model
ReorderCountries ==
    << CountryData("USA", 331), CountryData("China", 1439), CountryData("India", 1380),
       CountryData("Brazil", 213), CountryData("France", 67) >>

\* the orders in which a container can enumerate the elements of S
Orders(S) ==
    {o \in [1..Cardinality(S) -> S] : \A i, j \in 1..Cardinality(S) : o[i] = o[j] => i = j}

\* QList::move(from, to), both positions inside the list
listMove(s, from, to) == VecInsert(VecErase(s, from), to, s[from + 1])

\* QAbstractItemModel::beginMoveRows within one parent: FALSE for a move
\* onto the moved rows themselves or just behind them
beginMoveRows(sourceFirst, sourceLast, destinationChild) ==
    ~(destinationChild >= sourceFirst /\ destinationChild <= sourceLast + 1)

\* the position each row of the block is moved to
moveTarget(sourceRow, destinationChild, i) ==
    destinationChild + (IF sourceRow > destinationChild THEN 0 ELSE -1)

\* the row each step takes
moveSource(sourceRow, destinationChild, i) == sourceRow + i

\* what a QList::move from or to a position outside the list can leave
\* behind: the process stops, the list holds its records in any order, or
\* the element behind the list's end has taken the place of a record
Crash == [kind |-> "crash", data |-> <<>>]

\* the element std::rotate finds behind the end of the list
Stray == CountryData("", 0)

MoveUB(data) ==
    {Crash}
    \cup {[kind |-> "garbage", data |-> o] : o \in Orders(Range(data))}
    \cup {[kind |-> "garbage", data |-> [data EXCEPT ![k] = Stray]] : k \in 1..Len(data)}

\* the loop of moveRows from step i on; the result is [status, data]
RECURSIVE moveLoop(_, _, _, _, _, _)
moveLoop(data, sourceRow, count, destinationChild, i, ub) ==
    IF i >= count THEN [status |-> "true", data |-> data]
    ELSE LET from == moveSource(sourceRow, destinationChild, i)
             to == moveTarget(sourceRow, destinationChild, i)
         IN  IF from \in 0..(Len(data) - 1) /\ to \in 0..(Len(data) - 1)
             THEN moveLoop(listMove(data, from, to), sourceRow, count,
                           destinationChild, i + 1, ub)
             ELSE [status |-> ub.kind,
                   data |-> IF ub.kind = "crash" THEN data ELSE ub.data]

\* CountryModel::moveRows within the top level; the result is [status, data, log]
moveRows(data, sourceRow, count, destinationChild, ub) ==
    IF ~beginMoveRows(sourceRow, sourceRow + count - 1, destinationChild)
    THEN [status |-> "false", data |-> data, log |-> <<>>]
    ELSE LET res == moveLoop(data, sourceRow, count, destinationChild, 0, ub)
             begin == <<"beginMoveRows", sourceRow, sourceRow + count - 1, destinationChild>>
         IN  [status |-> res.status, data |-> res.data,
              log |-> IF res.status = "true" THEN <<begin, <<"endMoveRows">> >>
                      ELSE <<begin>>]

\* CountryModel::mimeData: the selected rows, streamed as their number and
\* then the rows in the order the set enumerates them
rowsMimeData(order) == MimeData(TRUE, <<Len(order)>> \o order)

\* stream >> rowsList
readRows(fields) ==
    IF fields = <<>> \/ Len(fields) < 1 + fields[1] THEN {}
    ELSE {fields[1 + i] : i \in 1..fields[1]}

\* *rowsList.begin(): the element the set enumerates first
firstRow(rowsList) == rowsList

\* CountryModel::dropMimeData with first the row *rowsList.begin() gave;
\* the result is [status, data, log, moved, sourceRow, count, row]
reorderDropMimeData(data, payload, atRow, parentIdx, first, ub) ==
    LET none == [status |-> "false", data |-> data, log |-> <<>>, moved |-> "none",
                 sourceRow |-> -1, count |-> 0, row |-> atRow]
        dest == IF atRow = -1 THEN Len(data) ELSE atRow
        rowsList == readRows(payload.fields)
    IN  IF ~payload.hasFormat THEN none
        ELSE IF parentIdx # InvalidIndex /\ atRow = -1 THEN none
        ELSE IF payload.fields = <<>> THEN none
        ELSE IF rowsList = {} THEN none
        ELSE LET res == moveRows(data, first, Cardinality(rowsList), dest, ub)
             IN  [status |-> IF res.status \in {"true", "false"} THEN "false" ELSE res.status,
                  data |-> res.data, log |-> res.log, moved |-> res.status,
                  sourceRow |-> first, count |-> Cardinality(rowsList), row |-> dest]

NoMove == [op |-> "none", sourceRow |-> -1, count |-> 0, row |-> -1, rows |-> {},
           ret |-> "none", moved |-> "none", pre |-> <<>>, log |-> <<>>]

InitReorder ==
    /\ program = "reorder"
    /\ NoTree
    /\ NoWidgets
    /\ drag = NoDrag
    /\ m_data = <<ReorderCountries>>
    /\ last = NoMove
    /\ calls = 0

ReorderRunning == program = "reorder" /\ last.ret \notin {"crash", "garbage"}

\* the list view moves a block of rows
MoveRows(sourceRow, count, destinationChild) ==
    /\ ReorderRunning
    /\ calls < MaxMoves
    /\ LET res == moveRows(m_data[1], sourceRow, count, destinationChild, Crash) IN
        /\ m_data' = [m_data EXCEPT ![1] = res.data]
        /\ last' = [op |-> "moveRows", sourceRow |-> sourceRow, count |-> count,
                    row |-> destinationChild, rows |-> {}, ret |-> res.status,
                    moved |-> res.status, pre |-> m_data[1], log |-> res.log]
    /\ calls' = calls + 1
    /\ UNCHANGED <<program, treeVars, widgetVars, drag>>

\* a view delivers a drop
ReorderDrop(payload, atRow, parentIdx, first, ub) ==
    /\ ReorderRunning
    /\ calls < MaxMoves
    /\ LET res == reorderDropMimeData(m_data[1], payload, atRow, parentIdx, first, ub) IN
        /\ m_data' = [m_data EXCEPT ![1] = res.data]
        /\ last' = [op |-> "dropMimeData", sourceRow |-> res.sourceRow, count |-> res.count,
                    row |-> res.row, rows |-> readRows(payload.fields), ret |-> res.status,
                    moved |-> res.moved, pre |-> m_data[1], log |-> res.log]
    /\ calls' = calls + 1
    /\ UNCHANGED <<program, treeVars, widgetVars, drag>>

\* the contiguous selections of at most n rows of a list of length len
Blocks(len, n) ==
    {a..(a + k - 1) : a \in 0..(len - 1), k \in 1..n} \cap SUBSET (0..(len - 1))

NextReorder ==
    /\ ReorderRunning
    /\ calls < MaxMoves
    /\ \/ \E sourceRow \in 0..(Len(m_data[1]) - 1), destinationChild \in 0..Len(m_data[1]) :
            \E count \in 1..(Len(m_data[1]) - sourceRow) :
                MoveRows(sourceRow, count, destinationChild)
       \/ \E rows \in Blocks(Len(m_data[1]), MaxDrag), atRow \in -1..Len(m_data[1]) :
            \E order \in Orders(rows), first \in firstRow(rows) :
              \E ub \in IF first + Cardinality(rows) > Len(m_data[1])
                        THEN MoveUB(m_data[1]) ELSE {Crash} :
                ReorderDrop(rowsMimeData(order), atRow, InvalidIndex, first, ub)
       \/ \E payload \in {MimeData(FALSE, <<>>), MimeData(TRUE, <<>>), MimeData(TRUE, <<0>>),
                          MimeData(TRUE, <<2, 1>>)},
             atRow \in {-1, 0} :
                ReorderDrop(payload, atRow, InvalidIndex, 0, Crash)
       \/ \E rows \in Blocks(Len(m_data[1]), MaxDrag), r \in 0..(Len(m_data[1]) - 1) :
            \E order \in Orders(rows), first \in firstRow(rows) :
                ReorderDrop(rowsMimeData(order), -1, createIndex(r, 0, NULL), first, Crash)

SpecReorder == InitReorder /\ [][NextReorder]_vars

----------------------------------------------------------------------------
(* Program "moveviews": the example of part 2 that moves countries between *)
(* two views.  Each view has its own CountryModel, models 1 and 2, accepts *)
(* drops and starts drags, and moves by default.  The payload of a drag is *)
(* the stream of the dragged records.  The selection model of the source   *)
(* view keeps the positions of the dragged rows up to date while rows are  *)
(* inserted, and the view removes the rows at those positions when the     *)
(* drag has ended as a move.                                               *)

\* the data main gives the two models
MoveCountries ==
    << << CountryData("USA", 331), CountryData("China", 1439), CountryData("India", 1380),
          CountryData("Brazil", 213), CountryData("France", 67) >>,
       << CountryData("Spain", 56) >> >>

\* CountryModel::rowCount
countryRowCount(data, parentIdx) == IF parentIdx.valid THEN 0 ELSE Len(data)

\* enum Columns: the number of columns of a CountryModel
COLUMNCOUNT == 2

\* the indexes a view passes to mimeData for the selected rows: one per
\* row and column the view shows
selectedIndexes(order, cols) ==
    [i \in 1..(Len(order) * cols) |->
        createIndex(order[((i - 1) \div cols) + 1], (i - 1) % cols, NULL)]

\* stream << m_data.at(row) for every dragged row, in the order of the indexes
RECURSIVE encodeCountries(_, _)
encodeCountries(data, order) ==
    IF order = <<>> THEN <<>>
    ELSE <<data[order[1] + 1].country, data[order[1] + 1].population>>
             \o encodeCountries(data, Tail(order))

\* CountryModel::mimeData: the records of the rows of the indexes, each row once
countryMimeData(data, indexes) ==
    MimeData(TRUE, encodeCountries(data, seenRows(indexes, <<>>)))

\* the decoding loop of dropMimeData from field i on
RECURSIVE decodeCountries(_, _)
decodeCountries(fields, i) ==
    IF i > Len(fields) THEN <<>>
    ELSE <<CountryData(fields[i], readField(fields, i + 1))>> \o decodeCountries(fields, i + 2)

\* an insertion loop that does not advance the row
RECURSIVE insertCountries_sameRow(_, _, _)
insertCountries_sameRow(data, atRow, newCountries) ==
    IF newCountries = <<>> THEN data
    ELSE insertCountries_sameRow(VecInsert(data, atRow, newCountries[1]), atRow,
                                 Tail(newCountries))

\* the insertion loop of dropMimeData
RECURSIVE insertCountries(_, _, _)
insertCountries(data, atRow, newCountries) ==
    IF newCountries = <<>> THEN data
    ELSE insertCountries(VecInsert(data, atRow, newCountries[1]), atRow + 1,
                         Tail(newCountries))

\* CountryModel::dropMimeData of the move example; the result is
\* [status, data, log, row, count]
countryDropMimeData(data, payload, atRow, parentIdx) ==
    LET none == [status |-> "false", data |-> data, log |-> <<>>, row |-> atRow, count |-> 0]
        dest == IF atRow = -1 THEN countryRowCount(data, parentIdx) ELSE atRow
        newCountries == decodeCountries(payload.fields, 1)
    IN  IF ~payload.hasFormat THEN none
        ELSE IF parentIdx.valid /\ atRow = -1 THEN none
        ELSE IF payload.fields = <<>> THEN none
        ELSE [status |-> "true",
              data |-> insertCountries(data, dest, newCountries),
              log |-> << <<"beginInsertRows", dest, dest + Len(newCountries) - 1>>,
                         <<"endInsertRows">> >>,
              row |-> dest, count |-> Len(newCountries)]

\* the row each step of removeRows removes
countryRemovedRow_advancing(position, i) == position + i

countryRemovedRow(position, i) == position

\* the loop of removeRows from step i on
RECURSIVE countryRemoveLoop(_, _, _, _)
countryRemoveLoop(data, position, rows, i) ==
    IF i >= rows THEN data
    ELSE countryRemoveLoop(VecErase(data, countryRemovedRow(position, i)),
                           position, rows, i + 1)

\* CountryModel::removeRows; the result is [data, log]
countryRemoveRows(data, position, rows) ==
    [data |-> countryRemoveLoop(data, position, rows, 0),
     log |-> << <<"beginRemoveRows", position, position + rows - 1>>,
                <<"endRemoveRows">> >>]

\* where the selection model has the dragged rows after count rows were
\* inserted at atRow
shiftedRows(rows, atRow, count) == {IF r >= atRow THEN r + count ELSE r : r \in rows}

\* the ranges of a selection: [top, count] for every maximal run of rows
selectionRanges(rows) ==
    {[top |-> a, count |-> k] : a \in rows, k \in 1..Cardinality(rows)} \cap
    {g \in [top : rows, count : 1..Cardinality(rows)] :
        /\ \A x \in g.top..(g.top + g.count - 1) : x \in rows
        /\ (g.top - 1) \notin rows
        /\ (g.top + g.count) \notin rows}

\* the source view removes the selected ranges, the lowest one last
RECURSIVE removeSelection(_, _)
removeSelection(data, ranges) ==
    IF ranges = {} THEN [data |-> data, log |-> <<>>]
    ELSE LET g == CHOOSE x \in ranges : \A y \in ranges : y.top <= x.top
             res == countryRemoveRows(data, g.top, g.count)
             rest == removeSelection(res.data, ranges \ {g})
         IN  [data |-> rest.data, log |-> res.log \o rest.log]

NoCountryDrag ==
    [phase |-> "idle", source |-> NULL, rows |-> {}, data |-> MimeData(FALSE, <<>>),
     action |-> "none", accepted |-> FALSE, dest |-> NULL, row |-> -1,
     selected |-> {}, before |-> <<>>, indexes |-> <<>>]

NoCountryCall ==
    [op |-> "none", node |-> NULL, row |-> -1, arg |-> MimeData(FALSE, <<>>),
     ret |-> "none", log |-> <<>>, requested |-> -1, target |-> InvalidIndex]

InitMove ==
    /\ program = "moveviews"
    /\ NoTree
    /\ NoWidgets
    /\ m_data = MoveCountries
    /\ drag = NoCountryDrag
    /\ last = NoCountryCall
    /\ calls = 0

MoveRunning == program = "moveviews"

\* the view of model m starts dragging its selected rows
CountryStartDrag(m, order, cols) ==
    /\ MoveRunning
    /\ drag.phase = "idle"
    /\ calls < MaxDrags
    /\ order # <<>>
    /\ Range(order) \subseteq 0..(Len(m_data[m]) - 1)
    /\ drag' = [phase |-> "dragging", source |-> m, rows |-> Range(order),
                data |-> countryMimeData(m_data[m], selectedIndexes(order, cols)),
                action |-> "none", accepted |-> FALSE, dest |-> NULL, row |-> -1,
                selected |-> Range(order), before |-> m_data,
                indexes |-> selectedIndexes(order, cols)]
    /\ last' = [op |-> "mimeData", node |-> m, row |-> -1,
                arg |-> countryMimeData(m_data[m], selectedIndexes(order, cols)),
                ret |-> "none", log |-> <<>>, requested |-> -1, target |-> InvalidIndex]
    /\ calls' = calls + 1
    /\ UNCHANGED <<program, m_data, treeVars, widgetVars>>

\* the dragged rows are dropped on the view of model m
CountryDrop(m, atRow, parentIdx) ==
    /\ MoveRunning
    /\ drag.phase = "dragging"
    /\ LET res == countryDropMimeData(m_data[m], drag.data, atRow, parentIdx) IN
        /\ m_data' = [m_data EXCEPT ![m] = res.data]
        /\ last' = [op |-> "dropMimeData", node |-> m, row |-> res.row, arg |-> drag.data,
                    ret |-> res.status, log |-> res.log, requested |-> atRow,
                    target |-> parentIdx]
        /\ drag' = [drag EXCEPT !.phase = "dropped", !.action = "MoveAction",
                                !.accepted = (res.status = "true"),
                                !.dest = m, !.row = res.row,
                                !.selected = IF m = drag.source
                                             THEN shiftedRows(@, res.row, res.count)
                                             ELSE @]
    /\ UNCHANGED <<calls, program, treeVars, widgetVars>>

\* data of another application is dropped on the view of model m
CountryForeignDrop(m, payload, atRow) ==
    /\ MoveRunning
    /\ drag.phase = "idle"
    /\ calls < MaxDrags
    /\ LET res == countryDropMimeData(m_data[m], payload, atRow, InvalidIndex) IN
        /\ m_data' = [m_data EXCEPT ![m] = res.data]
        /\ last' = [op |-> "dropMimeData", node |-> m, row |-> res.row, arg |-> payload,
                    ret |-> res.status, log |-> res.log, requested |-> atRow,
                    target |-> InvalidIndex]
    /\ calls' = calls + 1
    /\ UNCHANGED <<program, treeVars, widgetVars, drag>>

\* the drag ends, after a drop or without one
CountryFinishDrag ==
    /\ MoveRunning
    /\ drag.phase \in {"dragging", "dropped"}
    /\ IF dragRemoves(drag.accepted, drag.action)
       THEN LET res == removeSelection(m_data[drag.source], selectionRanges(drag.selected)) IN
            /\ m_data' = [m_data EXCEPT ![drag.source] = res.data]
            /\ last' = [op |-> "removeRows", node |-> drag.source, row |-> -1,
                        arg |-> drag.data, ret |-> "true", log |-> res.log,
                        requested |-> -1, target |-> InvalidIndex]
       ELSE /\ last' = [op |-> "dragFinished", node |-> drag.source, row |-> -1,
                        arg |-> drag.data, ret |-> "none", log |-> <<>>,
                        requested |-> -1, target |-> InvalidIndex]
            /\ UNCHANGED m_data
    /\ drag' = [drag EXCEPT !.phase = "idle"]
    /\ UNCHANGED <<calls, program, treeVars, widgetVars>>

\* the orders in which the indexes of at most n selected rows reach mimeData
Selections(len, n) ==
    UNION {Orders(rows) : rows \in {q \in SUBSET (0..(len - 1)) : Cardinality(q) \in 1..n}}

NextMove ==
    \/ /\ MoveRunning /\ drag.phase = "idle" /\ calls < MaxDrags
       /\ \E m \in Models : \E order \in Selections(Len(m_data[m]), MaxDrag) :
            \E cols \in 1..COLUMNCOUNT : CountryStartDrag(m, order, cols)
    \/ /\ MoveRunning /\ drag.phase = "dragging"
       /\ \E m \in Models : \E atRow \in -1..Len(m_data[m]) :
            CountryDrop(m, atRow, InvalidIndex)
    \/ /\ MoveRunning /\ drag.phase = "dragging"
       /\ \E m \in Models : \E r \in 0..(Len(m_data[m]) - 1) :
            CountryDrop(m, -1, createIndex(r, 0, NULL))
    \/ /\ MoveRunning /\ drag.phase = "dragging"
       /\ \E m \in Models : \E r \in 0..(Len(m_data[m]) - 1) :
            CountryDrop(m, 0, createIndex(r, 0, NULL))
    \/ /\ MoveRunning /\ drag.phase = "idle" /\ calls < MaxDrags
       /\ \E m \in Models, atRow \in {-1, 0} :
            \E payload \in {MimeData(FALSE, <<>>), MimeData(TRUE, <<>>),
                            MimeData(TRUE, <<"Peru", 34>>), MimeData(TRUE, <<"Peru">>)} :
                CountryForeignDrop(m, payload, atRow)
    \/ CountryFinishDrag

SpecMove == InitMove /\ [][NextMove]_vars

\* the models whose flags() restrict the drop targets
SpecTargets == (InitMove \/ InitFolders) /\ [][NextMove \/ NextFolders]_vars

----------------------------------------------------------------------------
(* Claims about the TreeNode store, checked under SpecNode *)

\* C1: every node held in the child sequence of a node P has its parent
\* reference equal to P, whatever parent it was constructed with.
C1_ParentIsOwner ==
    \A p \in live : \A i \in 1..Len(m_childNodes[p]) :
        m_childNodes[p][i] # NULL => m_parentNode[m_childNodes[p][i]] = p

\* C8: for every node c held in a child sequence, c.row() is c's position in
\* that sequence; row() of a node without parent is 0.
C8_RowIsPosition ==
    /\ \A p \in live : \A i \in 1..Len(m_childNodes[p]) :
           m_childNodes[p][i] # NULL => row(Heap, m_childNodes[p][i]) = {i - 1}
    /\ \A n \in live : m_parentNode[n] = NULL => row(Heap, n) = {0}

\* C9: childCount() of every node equals the number of appendChild and
\* insertChild calls made on it minus the number of takeChild calls.
C9_ChildCountIsNet ==
    \A n \in live : childCount(Heap, n) = net[n]

\* a node that had children added and one taken, and still has some
C9_Witness ==
    /\ last.op = "takeChild"
    /\ net[last.node] >= 1
    /\ childCount(Heap, last.node) >= 1

\* C10: after takeChild(row) with 0 <= row < childCount() the child sequence
\* has no null slot and does not contain the detached node, the remaining
\* children keep their relative order, and the detached node is returned.
C10_TakeChildLeavesNoHole ==
    last.op = "takeChild" =>
        LET s == m_childNodes[last.node]
            pre == last.pre
            r == last.pos
        IN  /\ \A i \in 1..Len(s) : s[i] # NULL
            /\ last.ret \notin Range(s)
            /\ Len(s) = Len(pre) - 1
            /\ \A i \in 1..Len(s) : s[i] = IF i <= r THEN pre[i] ELSE pre[i + 1]
            /\ last.ret = pre[r + 1]
            /\ last.ret \in held

\* the middle one of three children was detached
C10_Witness ==
    /\ last.op = "takeChild"
    /\ Len(last.pre) = 3
    /\ last.pos = 1
    /\ Len(m_childNodes[last.node]) = 2

\* C11: takeChild(i) followed by insertChild(j, the detached child) on a node
\* with n children, 0 <= i < n and 0 <= j <= n - 1, leaves the moved child at
\* position j with row() = j, the other children in their original relative
\* order, and n children again.
C11_MoveWithinParent ==
    (last.op = "insertChild" /\ last.pre # <<>>) =>
        LET s == m_childNodes[last.node]
            c == last.arg
            i == IndexOf(last.pre, c)
            j == last.pos
        IN  /\ Len(s) = Len(last.pre)
            /\ s[j + 1] = c
            /\ row(Heap, c) = {j}
            /\ VecErase(s, j) = VecErase(last.pre, i)

\* of three children the middle one was moved to the front
C11_Witness ==
    /\ last.op = "insertChild" /\ Len(last.pre) = 3
    /\ IndexOf(last.pre, last.arg) = 1 /\ last.pos = 0
    /\ m_childNodes[last.node] = <<last.pre[2], last.pre[1], last.pre[3]>>

----------------------------------------------------------------------------
(* Claims about the TreeModel handlers, checked under Spec *)

\* the log from position i on is a sequence of begin ... end blocks: every
\* insertChild or takeChild lies inside a block announced for its parent, the
\* k-th insertion of a block is at the k-th announced row, every removal is at
\* the first announced row, a block changes exactly as many rows as it
\* announces, blocks do not nest, and (unless the process died) none stays open
RECURSIVE Bracketed(_, _, _, _, _)
Bracketed(log, i, open, n, died) ==
    IF i > Len(log) THEN open = <<>> \/ died
    ELSE
      LET e == log[i] IN
      CASE e[1] \in {"beginInsertRows", "beginRemoveRows"} ->
             open = <<>> /\ Bracketed(log, i + 1, e, 0, died)
        [] e[1] = "insertChild" ->
             /\ open # <<>> /\ open[1] = "beginInsertRows"
             /\ e[2] = open[2] /\ e[3] = open[3] + n /\ e[3] <= open[4]
             /\ Bracketed(log, i + 1, open, n + 1, died)
        [] e[1] = "takeChild" ->
             /\ open # <<>> /\ open[1] = "beginRemoveRows"
             /\ e[2] = open[2] /\ e[3] = open[3] /\ open[3] + n <= open[4]
             /\ Bracketed(log, i + 1, open, n + 1, died)
        [] e[1] = "endInsertRows" ->
             /\ open # <<>> /\ open[1] = "beginInsertRows"
             /\ n = open[4] - open[3] + 1
             /\ Bracketed(log, i + 1, <<>>, 0, died)
        [] e[1] = "endRemoveRows" ->
             /\ open # <<>> /\ open[1] = "beginRemoveRows"
             /\ n = (IF open[4] >= open[3] THEN open[4] - open[3] + 1 ELSE 0)
             /\ Bracketed(log, i + 1, <<>>, 0, died)
        [] OTHER -> Bracketed(log, i + 1, open, n, died)

ModelOps == {"dropMimeData", "removeRows", "removeNode"}

\* C2: every change a TreeModel handler makes to a child sequence happens
\* between a begin notification and its matching end, the announced parent and
\* rows are the parent and rows changed, every begin is followed by its end
\* before the handler returns, and begin/end pairs do not nest.
C2_ChangesAreAnnounced ==
    (program = "treemodel" /\ last.op \in ModelOps) =>
        Bracketed(last.log, 1, <<>>, 0, last.ret = "crash")

\* a drop that inserted two rows, each in its own begin/end pair
C2_Witness ==
    /\ program = "treemodel" /\ last.op = "dropMimeData" /\ last.ret = "true"
    /\ Cardinality({i \in 1..Len(last.log) : last.log[i][1] = "insertChild"}) = 2

\* the payload is a same-process encoding of live nodes: pid, count and
\* exactly count addresses of nodes in the set alive
NamesLiveNodes(data, alive) ==
    /\ data.hasFormat
    /\ Len(data.fields) >= 2
    /\ data.fields[1] = applicationPid
    /\ data.fields[2] = Len(data.fields) - 2
    /\ \A i \in 3..Len(data.fields) : data.fields[i] \in alive

HeapNext == [children |-> m_childNodes', parent |-> m_parentNode',
             data |-> m_itemData', live |-> live']

\* c in heap h2 is a copy of n in heap h: same column values, and the
\* children are, in order, copies of the children
RECURSIVE IsCopy(_, _, _, _)
IsCopy(h, n, h2, c) ==
    /\ h2.data[c] = h.data[n]
    /\ Len(h2.children[c]) = Len(h.children[n])
    /\ \A i \in 1..Len(h.children[n]) :
         /\ h2.parent[h2.children[c][i]] = c
         /\ IsCopy(h, h.children[n][i], h2, h2.children[c][i])

\* C3: an accepted drop of a same-process payload naming k live nodes returns
\* true and leaves the target parent with copies of n1..nk, in payload order,
\* at rows r..r+k-1 (r = row, or 0 for a drop onto a node, or the number of
\* top-level rows for row -1 on the invalid parent); the children formerly at
\* rows >= r move down by k and no node that existed before is removed,
\* re-parented or reordered.
C3_DropInsertsCopies ==
    [][(last'.op = "dropMimeData" /\ NamesLiveNodes(last'.arg, live)) =>
        LET p == last'.node
            k == last'.arg.fields[2]
            r == IF last'.pos # -1 THEN last'.pos
                 ELSE IF p \notin Models THEN 0 ELSE Len(m_childNodes[p])
            old == m_childNodes[p]
            new == m_childNodes'[p]
        IN  /\ last'.ret = "true"
            /\ Len(new) = Len(old) + k
            /\ \A i \in 1..Len(old) : old[i] = IF i <= r THEN new[i] ELSE new[i + k]
            /\ \A j \in 1..k :
                 /\ new[r + j] \in live' \ live
                 /\ m_parentNode'[new[r + j]] = p
                 /\ IsCopy(Heap, last'.arg.fields[2 + j], HeapNext, new[r + j])
            /\ \A n \in live :
                 /\ n \in live'
                 /\ m_parentNode'[n] = m_parentNode[n]
                 /\ m_itemData'[n] = m_itemData[n]
                 /\ n # p => m_childNodes'[n] = m_childNodes[n]
      ]_vars

\* C5: a drop whose target parent is itself one of the dragged nodes is
\* declined: dropMimeData returns false and the tree is unchanged.
C5_SelfDropDeclined ==
    [][(/\ last'.op = "dropMimeData"
        /\ NamesLiveNodes(last'.arg, live)
        /\ last'.node \in Range(SubSeq(last'.arg.fields, 3, Len(last'.arg.fields))))
       => (last'.ret = "false" /\ HeapNext = Heap)
      ]_vars

\* the payload has the format and this process's id but no count field, or a
\* count larger than the number of addresses that follow
Malformed(data) ==
    /\ data.hasFormat
    /\ readField(data.fields, 1) = applicationPid
    /\ \/ Len(data.fields) < 2
       \/ data.fields[2] > Len(data.fields) - 2

\* C6: dropMimeData ignores every malformed payload: it returns false, inserts
\* no row and emits no notification.
C6_MalformedIgnored ==
    (program = "treemodel" /\ last.op = "dropMimeData" /\ Malformed(last.arg)) =>
        (last.ret = "false" /\ last.log = <<>>)

----------------------------------------------------------------------------
(* Claims about TreeModel::removeRows, checked under Spec and SpecRemove *)

\* the nodes owned by the children at rows r..r+count-1 of sequence s
RemovedNodes(h, s, r, count) ==
    UNION {Subtree(h, s[i]) : i \in (r + 1)..(r + count)}

\* C12: removeRows(row, count, parent) with 0 <= row, count >= 1 and
\* row + count <= childCount(parent) returns true, removes exactly the
\* children at rows row..row+count-1 and destroys them with their subtrees;
\* the remaining children keep their order and no other node changes.
C12_RemoveRowsRemovesRange ==
    [][(/\ last'.op = "removeRows"
        /\ last'.pos >= 0 /\ last'.arg >= 1
        /\ last'.pos + last'.arg <= Len(m_childNodes[last'.node]))
       => LET p == last'.node
              r == last'.pos
              count == last'.arg
              old == m_childNodes[p]
              gone == RemovedNodes(Heap, old, r, count)
          IN  /\ last'.ret = "true"
              /\ m_childNodes'[p] = SubSeq(old, 1, r) \o SubSeq(old, r + count + 1, Len(old))
              /\ live' = live \ gone
              /\ \A n \in live' :
                    /\ m_parentNode'[n] = m_parentNode[n]
                    /\ m_itemData'[n] = m_itemData[n]
                    /\ n # p => m_childNodes'[n] = m_childNodes[n]
                    /\ \A i \in 1..Len(m_childNodes'[n]) : m_childNodes'[n][i] \notin gone
      ]_vars

\* two of three top-level rows were removed
C12_Witness ==
    /\ program = "treemodel" /\ last.op = "removeRows" /\ last.ret = "true"
    /\ last.arg = 2 /\ Len(last.pre) = 3
    /\ Len(m_childNodes[last.node]) = 1
    /\ Cardinality({i \in 1..Len(last.log) : last.log[i][1] = "takeChild"}) = 2

\* the rows r..r+count-1 are not a non-empty range of rows of a parent with
\* n children
OutOfRange(r, count, n) == r < 0 \/ count <= 0 \/ r + count > n

\* C13: a removeRows call whose rows are not a non-empty range of existing
\* children of parent fails an assertion before any begin notification is
\* emitted and before any takeChild runs.
C13_OutOfRangeAsserts ==
    (last.op = "removeRows" /\ OutOfRange(last.pos, last.arg, Len(last.pre))) =>
        (last.ret = "assert" /\ last.log = <<>>)

----------------------------------------------------------------------------
(* Claims about all address-decoding drop handlers, checked under SpecDrop *)

\* the payload lacks the format or its data, or names another sender process
Foreign(data) ==
    \/ ~data.hasFormat
    \/ data.fields = <<>>
    \/ data.fields[1] # applicationPid

\* C4: a drop handler that decodes addresses (TreeModel and the three folders
\* widgets) returns false, changes no node and no folder, emits no
\* notification and dereferences no decoded address when the payload lacks
\* the expected format or data or carries another process's id.
C4_ForeignDropRejected ==
    [][(last'.op = "dropMimeData" /\ Foreign(last'.arg)) =>
        /\ last'.ret = "false"
        /\ last'.log = <<>>
        /\ UNCHANGED <<treeVars, m_emails, m_folder, emailItems, counts>>
      ]_vars

\* a move of two emails sent by another process was dropped on the tree widget
C4_Witness ==
    /\ program = "treewidget" /\ last.op = "dropMimeData" /\ last.action = "MoveAction"
    /\ last.arg.hasFormat /\ Len(last.arg.fields) = 5 /\ last.arg.fields[1] = otherPid
    /\ last.ret = "false"

----------------------------------------------------------------------------
(* Claims about the email-folder examples, checked under SpecEmail *)

----------------------------------------------------------------------------
(* Claims about drags between the two tree views, checked under SpecDrag *)

----------------------------------------------------------------------------
(* Claims about the main functions, checked under SpecMain *)

VariantWords == {"list", "table", "tree"}

\* the view classes that show a variant
Shows(word) ==
    CASE word = "list"  -> {"QListWidget", "QListView"}
      [] word = "table" -> {"QTableWidget", "QTableView"}
      [] word = "tree"  -> {"QTreeWidget", "QTreeView"}

\* C15: main looks at the first command-line word only: without a word it
\* shows the list variant, with "list", "table" or "tree" it shows that
\* variant and enters the event loop, and with any other first word it
\* returns 1 having shown no window and not entered the event loop.
C15_VariantWord ==
    last.op = "main" =>
        LET args == last.arg  r == last.ret
        IN  /\ Len(args) = 1 =>
                r.view \in Shows("list") /\ r.shown /\ r.loop
            /\ (Len(args) > 1 /\ args[2] \in VariantWords) =>
                r.view \in Shows(args[2]) /\ r.shown /\ r.loop
            /\ (Len(args) > 1 /\ args[2] \notin VariantWords) =>
                r.ret = 1 /\ ~r.shown /\ ~r.loop /\ r.view = "none"

\* main was given an unknown word followed by a known one and returned 1
C15_Witness ==
    /\ last.op = "main"
    /\ last.node = "drop-onto-items-with-model-view"
    /\ Tail(last.arg) = <<"icons", "tree">>
    /\ last.ret.ret = 1
    /\ ~last.ret.shown

----------------------------------------------------------------------------
(* Claims about the reordering CountryModel, checked under SpecReorder *)

\* the list s with the block of count rows from sourceRow on taken out and
\* put back, in its order, before the row that was at destinationChild
BlockMoved(s, sourceRow, count, destinationChild) ==
    LET block == SubSeq(s, sourceRow + 1, sourceRow + count)
        rest == SubSeq(s, 1, sourceRow) \o SubSeq(s, sourceRow + count + 1, Len(s))
        at == IF destinationChild > sourceRow THEN destinationChild - count
              ELSE destinationChild
    IN  SubSeq(rest, 1, at) \o block \o SubSeq(rest, at + 1, Len(rest))

\* C16: moveRows on top-level rows with count >= 1 returns false and leaves
\* the list alone when the destination lies in [sourceRow, sourceRow + count],
\* and otherwise returns true with the block re-inserted in its original
\* order before the row that was at the destination.
C16_MoveRowsMovesBlock ==
    (last.op = "moveRows" /\ last.count >= 1) =>
        IF last.row \in last.sourceRow..(last.sourceRow + last.count)
        THEN last.ret = "false" /\ m_data[1] = last.pre
        ELSE /\ last.ret = "true"
             /\ m_data[1] = BlockMoved(last.pre, last.sourceRow, last.count, last.row)

\* moveRows of a single row does what is described for a block
C16_SingleRowMoved ==
    (last.op = "moveRows" /\ last.count = 1) =>
        IF last.row \in last.sourceRow..(last.sourceRow + last.count)
        THEN last.ret = "false" /\ m_data[1] = last.pre
        ELSE /\ last.ret = "true"
             /\ m_data[1] = BlockMoved(last.pre, last.sourceRow, last.count, last.row)

\* a set of rows without a gap
Contiguous(rows) ==
    rows # {} /\ \A r \in rows, q \in rows : \A x \in r..q : x \in rows

\* C17: dropMimeData given a contiguous row set calls moveRows with the
\* smallest selected row and the number of selected rows, whatever order the
\* set enumerates its rows in, and returns false in every case.
C17_DropMovesSelection ==
    last.op = "dropMimeData" =>
        /\ last.ret = "false"
        /\ (Contiguous(last.rows) /\ last.moved # "none") =>
               /\ last.sourceRow \in last.rows
               /\ \A r \in last.rows : last.sourceRow <= r
               /\ last.count = Cardinality(last.rows)

\* dropMimeData never returns true, whether it moved rows or not
C17_DropReturnsFalse ==
    (last.op = "dropMimeData" /\ last.moved \in {"none", "true", "false"}) =>
        last.ret = "false"

----------------------------------------------------------------------------
(* Claims about completed moves in the tree views, checked under SpecDrag *)

\* C18: a completed move in the tree views (dropMimeData returned true and
\* the source view has removed the dragged rows) leaves as many nodes in the
\* two trees together as there were when the drag started, whatever the
\* selection and the target.
C18_MoveKeepsNodeCount ==
    [][(program = "treeviews" /\ last'.op = "removeRows") =>
            Cardinality(live') = drag.before]_vars

\* no dragged node lies below another dragged node
Unnested(h, nodes) ==
    \A i, j \in 1..Len(nodes) : i # j => nodes[i] \notin Subtree(h, nodes[j])

\* a completed move of rows none of which lies below another keeps the
\* number of nodes
MoveOfUnnestedKeepsNodeCount ==
    [][(program = "treeviews" /\ last'.op = "removeRows" /\ Unnested(Heap, drag.nodes)) =>
            Cardinality(live') = drag.before]_vars

----------------------------------------------------------------------------
(* Claims about the move-between-views CountryModel, checked under SpecMove *)

\* how often x occurs in the list s
Occurrences(s, x) == Cardinality({i \in 1..Len(s) : s[i] = x})

\* the rows lo..hi of s that are not in rows, in order
RECURSIVE Keep(_, _, _, _)
Keep(s, rows, lo, hi) ==
    IF lo > hi THEN <<>>
    ELSE (IF lo \in rows THEN <<>> ELSE <<s[lo + 1]>>) \o Keep(s, rows, lo + 1, hi)

\* C19: a completed move (dropMimeData returned true on the destination, then
\* the source view had the dragged rows removed from the source model) keeps
\* the combined multiset of records of the two models; the source model loses
\* the records at the dragged rows and the destination holds the dragged
\* records at the insertion point, so that after a move within one model to a
\* point above the dragged rows it is the originals that are gone.
C19_MovePreservesRecords ==
    [][(program = "moveviews" /\ last'.op = "removeRows") =>
        LET before == drag.before
            src == drag.source
            dst == drag.dest
            moved == decodeCountries(drag.data.fields, 1)
            sel == IF src = dst THEN drag.rows ELSE {}
        IN  /\ \A x \in Range(before[1] \o before[2] \o m_data'[1] \o m_data'[2]) :
                  Occurrences(m_data'[1] \o m_data'[2], x)
                      = Occurrences(before[1] \o before[2], x)
            /\ m_data'[dst] = Keep(before[dst], sel, 0, drag.row - 1) \o moved
                                \o Keep(before[dst], sel, drag.row, Len(before[dst]) - 1)
            /\ src # dst =>
                  m_data'[src] = Keep(before[src], drag.rows, 0, Len(before[src]) - 1)
      ]_vars

\* rows 2 and 3 of model 1 have been moved to the top of model 1
C19_Witness ==
    /\ program = "moveviews" /\ last.op = "removeRows"
    /\ drag.source = 1 /\ drag.dest = 1 /\ drag.rows = {2, 3} /\ drag.row = 0
    /\ drag.selected = {4, 5}
    /\ Len(m_data[1]) = 5
    /\ m_data[1][1].country = "India" /\ m_data[1][2].country = "Brazil"
    /\ m_data[1][3].country = "USA" /\ m_data[1][5].country = "France"

----------------------------------------------------------------------------
(* Claims about the email totals, checked under SpecEmail *)

\* the number of emails over all folders
RECURSIVE TotalEmails(_)
TotalEmails(folders) ==
    IF folders = <<>> THEN 0 ELSE Len(Head(folders)) + TotalEmails(Tail(folders))

\* folders holds what before held, with the emails at rows of folder src
\* appended to folder dest in the order of the sequence rows, and taken out
\* of src if the drag was a move
Dragged(before, folders, src, dest, rows, action) ==
    /\ folders[dest] = before[dest] \o [i \in 1..Len(rows) |-> before[src][rows[i] + 1]]
    /\ folders[src] = IF action = "MoveAction"
                      THEN Keep(before[src], Range(rows), 0, Len(before[src]) - 1)
                      ELSE before[src]
    /\ \A f \in 1..Len(before) : f \notin {src, dest} => folders[f] = before[f]
    /\ Len(folders) = Len(before)
    /\ TotalEmails(folders) = TotalEmails(before)
                                + (IF action = "MoveAction" THEN 0 ELSE Len(rows))

\* the payload is the encoding of one or more items of the emails widget
OwnSelection(data) ==
    /\ data.hasFormat
    /\ Len(data.fields) >= 4
    /\ data.fields[1] = applicationPid
    /\ data.fields[2] = m_folder
    /\ data.fields[3] = Len(data.fields) - 3
    /\ \A i \in 4..Len(data.fields) : itemRow(emailItems, data.fields[i]) # -1

\* C20: a completed drag of emails onto another folder appends exactly the
\* dragged emails to the destination; a move takes exactly those emails out
\* of the source, so the total number of emails is unchanged, and a copy
\* leaves the source alone, so the total grows by the number of dragged
\* emails.  In the widget examples the drop handler does all of it; in the
\* model examples the emails view removes the rows when the drag has ended.
C20_TotalsFollowDrags ==
    [][/\ (/\ program \in WidgetPrograms
           /\ last'.op = "dropMimeData"
           /\ OwnSelection(last'.arg)
           /\ last'.dest # m_folder)
          => /\ last'.ret = "false"
             /\ Dragged(m_emails, m_emails', m_folder, last'.dest,
                        [i \in 1..(Len(last'.arg.fields) - 3) |->
                            itemRow(emailItems, last'.arg.fields[i + 3])],
                        last'.action)
       /\ (/\ program \in FolderPrograms
           /\ last'.op \in {"removeRows", "dragFinished"}
           /\ drag.accepted)
          => Dragged(drag.before, m_emails', drag.source, last.dest, drag.nodes, drag.action)
      ]_vars

\* the list widgets have moved the first two emails of the inbox, in that
\* order, to the second folder
C20_Witness ==
    /\ program = "listwidget" /\ last.op = "dropMimeData" /\ last.action = "MoveAction"
    /\ last.dest = 2 /\ Len(last.arg.fields) = 5
    /\ m_emails[1] = <<"Urgent", "Spam 1">>
    /\ m_emails[2] = <<"Old customer", "Call your mother", "Customer request">>

----------------------------------------------------------------------------
(* Claims about the payload of the move-between-views CountryModel, checked *)
(* under SpecMove                                                          *)

\* the rows of the indexes from position i on that no earlier index names
RECURSIVE FirstAppearances(_, _)
FirstAppearances(indexes, i) ==
    IF i > Len(indexes) THEN <<>>
    ELSE (IF \E j \in 1..(i - 1) : indexes[j].row = indexes[i].row THEN <<>>
          ELSE <<indexes[i].row>>) \o FirstAppearances(indexes, i + 1)

\* C21: dropping the payload mimeData made of some indexes between top-level
\* rows (or at row -1, the end) returns true and inserts, at consecutive rows
\* from the insertion row on, the records of the distinct rows of the indexes,
\* each once and in order of first appearance, with country and population
\* as they were; the rows that were there keep their order.
C21_PayloadRoundTrip ==
    [][(/\ program = "moveviews"
        /\ drag.phase = "dragging"
        /\ last'.op = "dropMimeData"
        /\ ~last'.target.valid)
       => LET m == last'.node
              old == m_data[m]
              at == IF last'.requested = -1 THEN Len(old) ELSE last'.requested
              rows == FirstAppearances(drag.indexes, 1)
              records == [i \in 1..Len(rows) |-> m_data[drag.source][rows[i] + 1]]
          IN  /\ last'.ret = "true"
              /\ m_data'[m] = SubSeq(old, 1, at) \o records \o SubSeq(old, at + 1, Len(old))
              /\ \A o \in Models \ {m} : m_data'[o] = m_data[o]
      ]_vars

\* rows 3 and 1 of model 1, selected in that order in a view of two columns,
\* have been dropped before the only row of model 2
C21_Witness ==
    /\ program = "moveviews" /\ last.op = "dropMimeData" /\ last.ret = "true"
    /\ drag.phase = "dropped" /\ drag.source = 1 /\ last.node = 2 /\ last.requested = 0
    /\ Len(drag.indexes) = 4
    /\ [i \in 1..4 |-> drag.indexes[i].row] = <<3, 3, 1, 1>>
    /\ m_data[2] = <<CountryData("Brazil", 213), CountryData("China", 1439),
                     CountryData("Spain", 56)>>

----------------------------------------------------------------------------
(* Claims about FoldersModel::dropMimeData, checked under SpecFolders *)

\* the drop handler was given a valid index, a payload that is not empty and
\* a source folder other than the one the index names
AcceptedFolderDrop ==
    /\ program \in FolderPrograms
    /\ last'.op = "dropMimeData"
    /\ last'.dest \in 1..Len(m_emails)
    /\ encodedData(last'.arg) # <<>>
    /\ encodedData(last'.arg)[1] # folderName(program)[last'.dest]

\* C22: an accepted FoldersModel::dropMimeData returns true, appends the
\* dragged emails in payload order to the end of the target folder's list
\* and leaves the list of every other folder, the source included, as it was.
C22_DropAppendsToTarget ==
    [][AcceptedFolderDrop =>
        LET rows == drag'.nodes
            emails == [i \in 1..Len(rows) |-> m_emails[m_folder][rows[i] + 1]]
        IN  /\ last'.ret = "true"
            /\ Len(m_emails') = Len(m_emails)
            /\ m_emails'[last'.dest] = m_emails[last'.dest] \o emails
            /\ \A f \in 1..Len(m_emails) : f # last'.dest => m_emails'[f] = m_emails[f]
      ]_vars

\* the tree example has accepted a drop of the second and the first email of
\* the inbox onto the folder 2023
C22_Witness ==
    /\ program = "treefolders" /\ last.op = "dropMimeData" /\ last.ret = "true"
    /\ drag.phase = "dropped" /\ drag.nodes = <<1, 0>>
    /\ folderName(program)[last.dest] = "2023"
    /\ Len(m_emails[last.dest]) = 3
    /\ m_emails[last.dest][2] = m_emails[1][2] /\ m_emails[last.dest][3] = m_emails[1][1]
    /\ Len(m_emails[1]) = 4

----------------------------------------------------------------------------
(* Claims about the drop targets of the models, checked under SpecTargets *)

\* C23: dropMimeData changes nothing and returns false for a target its
\* flags() does not declare drop-enabled: for a CountryModel every valid
\* parent index, for a FoldersModel the invalid index and every index in a
\* column other than 0.
C23_OnlyDropEnabledTargets ==
    [][/\ (program = "moveviews" /\ last'.op = "dropMimeData" /\ last'.target.valid)
          => (last'.ret = "false" /\ UNCHANGED m_data)
       /\ (/\ program \in FolderPrograms /\ last'.op = "dropMimeData"
           /\ (~last'.target.valid \/ last'.target.column # 0))
          => (last'.ret = "false" /\ UNCHANGED m_emails)
      ]_vars

\* what the handlers do reject: a CountryModel drop onto an item (valid
\* parent, row -1) and a FoldersModel drop on the invalid index
RejectedTargets ==
    [][/\ (/\ program = "moveviews" /\ last'.op = "dropMimeData"
           /\ last'.target.valid /\ last'.requested = -1)
          => (last'.ret = "false" /\ UNCHANGED m_data)
       /\ (program \in FolderPrograms /\ last'.op = "dropMimeData" /\ ~last'.target.valid)
          => (last'.ret = "false" /\ UNCHANGED m_emails)
      ]_vars

----------------------------------------------------------------------------
(* Claims about the emails widget of the item-widget examples, checked     *)
(* under SpecWidgets                                                       *)

\* C24: the emails widget mirrors the email list of the folder it shows (as
\* many rows as the folder has emails, row i displays email i) after any
\* folder clicks and move or copy drops, and the drop handler of the folders
\* widget returns false in every case.
C24_WidgetMirrorsFolder ==
    program \in WidgetPrograms =>
        /\ Len(emailItems) = Len(m_emails[m_folder])
        /\ \A i \in 1..Len(emailItems) : emailItems[i].text = m_emails[m_folder][i]
        /\ last.op = "dropMimeData" => last.ret = "false"

\* a move of the second and the first email of the Inbox has removed both
\* from the folder and from the widget
C24_Witness ==
    /\ program \in WidgetPrograms
    /\ last.op = "dropMimeData" /\ last.action = "MoveAction"
    /\ m_folder = 1 /\ last.dest = 3
    /\ last.arg = emailsMimeData(1, <<2, 1>>)
    /\ Len(m_emails[1]) = 2 /\ Len(emailItems) = 2
    /\ emailItems[1].text = "Urgent"
    /\ Len(m_emails[3]) = 6

----------------------------------------------------------------------------
(* Claims about the notifications of FoldersModel, checked under           *)
(* SpecFolders                                                             *)

\* the dataChanged announcements of the last call that cover column col of
\* folder f
Announced(f, col) ==
    \E i \in 1..Len(last.log) :
        /\ last.log[i][1] = "dataChanged"
        /\ last.log[i][2] = f
        /\ last.log[i][3] <= col /\ col <= last.log[i][4]

\* C25: after an accepted drop FoldersModel has announced a data change
\* that covers the count cell (column NumEmails) of the destination folder.
C25_CountCellAnnounced ==
    (program \in FolderPrograms /\ last.op = "dropMimeData" /\ last.ret = "true")
        => Announced(last.dest, NumEmails)

\* what the handler does announce: the cell the drop landed on
DropCellAnnounced ==
    (program \in FolderPrograms /\ last.op = "dropMimeData" /\ last.ret = "true")
        => Announced(last.dest, last.target.column)

----------------------------------------------------------------------------
(* Claims about the receiving folder of the item-widget examples, checked  *)
(* under SpecWidgets                                                       *)

\* C26: in the item-widget email examples the folder whose list a drop
\* changes by appending the dragged emails is never the folder the emails
\* widget shows, whatever clicks and drops came before.
C26_ReceiverNotShown ==
    [][(/\ program \in WidgetPrograms
        /\ last'.op = "dropMimeData"
        /\ m_emails'[last'.dest] # m_emails[last'.dest])
          => (/\ last'.dest # m_folder
              /\ m_folder' = m_folder
              /\ Len(m_emails'[last'.dest]) > Len(m_emails[last'.dest]))
      ]_vars

\* after a click on Customers the only email shown was copied to the Inbox
C26_Witness ==
    /\ program \in WidgetPrograms
    /\ last.op = "dropMimeData" /\ last.action = "CopyAction"
    /\ m_folder = 2 /\ last.dest = 1
    /\ Len(m_emails[1]) = 5 /\ m_emails[1][5] = "Old customer"
    /\ Len(emailItems) = 1 /\ emailItems[1].text = "Old customer"

----------------------------------------------------------------------------
(* Claims about the rows of the reordering CountryModel, checked under     *)
(* SpecReorder                                                             *)

\* s holds each record of t exactly as often as t does
Permutation(s, t) ==
    /\ Len(s) = Len(t)
    /\ \A x \in Range(s) \cup Range(t) : Occurrences(s, x) = Occurrences(t, x)

\* C27: whatever dropMimeData and moveRows calls were made, accepted or
\* rejected, the model holds a permutation of its initial rows: the row
\* count is unchanged and no record is lost, duplicated or altered.
C27_RowsArePermutation ==
    program = "reorder" => Permutation(m_data[1], ReorderCountries)

\* the calls that stay inside the list leave a permutation
DefinedMovesPermute ==
    (program = "reorder" /\ last.ret \in {"none", "true", "false"})
        => Permutation(m_data[1], ReorderCountries)

----------------------------------------------------------------------------
(* Claims about TreeModel::index and TreeModel::parent, checked under      *)
(* SpecDrag                                                                *)

\* the node that holds n in its sequence of children
Owner(h, n) ==
    CHOOSE p \in h.live : \E i \in 1..Len(h.children[p]) : h.children[p][i] = n

\* the index a view has for node p of model m: none for the root
ViewIndex(h, m, p) ==
    IF p = rootNode(m) THEN InvalidIndex
    ELSE createIndex(CHOOSE r \in 0..MaxNode : h.children[Owner(h, p)][r + 1] = p, 0, p)

\* the rows and columns index() is asked for
AskedRows == -1..MaxNode

AskedColumns == -1..2

\* C28: for every node n below the root of a model, index(n.row(), c,
\* index of n's parent) is a valid index that refers to n, for every column
\* c of the parent, and parent() of it is the column-0 index of n's parent,
\* or the invalid index when n is a top-level node; index() gives the
\* invalid index for every row or column outside the parent's range.
C28_IndexParentConsistent ==
    program \in {"treemodel", "treeviews"} =>
      \A m \in Models :
        /\ \A n \in ModelNodes(Heap, m) :
             LET p == Owner(Heap, n)
                 pIdx == ViewIndex(Heap, m, p)
             IN  \A r \in row(Heap, n), c \in 0..(modelColumnCount(Heap, m, pIdx) - 1) :
                   LET idx == index(Heap, m, r, c, pIdx) IN
                   /\ idx = createIndex(r, c, n)
                   /\ r = ViewIndex(Heap, m, n).row
                   /\ parent(Heap, m, idx) = pIdx
        /\ \A p \in Subtree(Heap, rootNode(m)), r \in AskedRows, c \in AskedColumns :
             LET pIdx == ViewIndex(Heap, m, p) IN
             (\/ r < 0 \/ r >= childCount(Heap, p)
              \/ c < 0 \/ c >= columnCount(Heap, p))
                => index(Heap, m, r, c, pIdx) = InvalidIndex

\* after an accepted drop the second model holds a node with a child, and
\* the first model a node with a child and a node in row 1
C28_Witness ==
    /\ program = "treeviews"
    /\ last.op = "dropMimeData" /\ last.ret = "true"
    /\ \E n \in ModelNodes(Heap, 2) : Owner(Heap, n) # rootNode(2)
    /\ \E n \in ModelNodes(Heap, 1) : Owner(Heap, n) # rootNode(1)
    /\ \E n \in ModelNodes(Heap, 1) : ViewIndex(Heap, 1, n).row = 1

----------------------------------------------------------------------------
(* Program "setup": TreeModel::TreeModel runs setupModelData on a text,    *)
(* taken line by line.  last holds the lines, the position of the for      *)
(* loop, and the stack of enclosing parents before and after the line.     *)

MaxSetupLines == 4

\* lines at three indentations, with one or two columns, and a blank line
SetupLineSet ==
    {Line(0, <<"A">>), Line(2, <<"A">>), Line(4, <<"B", "b">>), Line(2, <<>>)}

SetupTexts == UNION {[1..k -> SetupLineSet] : k \in 0..MaxSetupLines}

\* the heap when the constructor calls setupModelData: the root node only
SetupRoot == Construct(EmptyHeap, rootNode(1), <<"Title", "Summary">>, NULL)

InitSetup ==
    /\ program = "setup"
    /\ m_childNodes = SetupRoot.children
    /\ m_parentNode = SetupRoot.parent
    /\ m_itemData = SetupRoot.data
    /\ live = SetupRoot.live
    /\ held = {rootNode(1)}
    /\ net = [n \in Nodes |-> 0]
    /\ NoWidgets
    /\ NoCountries
    /\ drag = NoDrag
    /\ \E text \in SetupTexts :
          last = [op |-> "none", lines |-> text, i |-> 1,
                  state |-> <<[parent |-> rootNode(1), indentation |-> 0]>>,
                  pre |-> <<>>, node |-> NULL]
    /\ calls = 0

\* one pass of the for loop of setupModelData
SetupLine ==
    /\ program = "setup"
    /\ last.i <= Len(last.lines)
    /\ LET s == setupLine(Heap, last.state, last.lines[last.i]) IN
        /\ SetHeap(s.heap)
        /\ last' = [op |-> "setupLine", lines |-> last.lines, i |-> last.i + 1,
                    state |-> s.state, pre |-> last.state,
                    node |-> IF s.heap.live = live THEN NULL
                             ELSE CHOOSE a \in s.heap.live : a \notin live]
    /\ UNCHANGED <<calls, program, held, net, widgetVars, m_data, drag>>

NextSetup == SetupLine

SpecSetup == InitSetup /\ [][NextSetup]_vars

----------------------------------------------------------------------------
(* Claims about TreeModel::setupModelData, checked under SpecSetup         *)

\* the nearest enclosing level of the stack whose indentation is not
\* greater than position
NearestLevel(state, position) ==
    state[CHOOSE k \in 1..Len(state) :
            /\ state[k].indentation <= position
            /\ \A j \in (k + 1)..Len(state) : state[j].indentation > position]

\* the node a line at position is appended to, given the stack and the tree
\* before the line
SetupParent(state, position) ==
    LET back == state[Len(state)] IN
    IF position > back.indentation
    THEN IF m_childNodes[back.parent] # <<>>
         THEN m_childNodes[back.parent][Len(m_childNodes[back.parent])]
         ELSE back.parent
    ELSE NearestLevel(state, position).parent

\* C29: setupModelData creates one node per non-blank line and none for a
\* blank line; a line indented deeper than the current level becomes a child
\* of the last node of the current level (of the current parent when it has
\* no children), a line indented less goes back to the nearest enclosing
\* level not indented deeper than the line; the stack never loses its root
\* entry; the new node's parent reference is the node it was appended to.
C29_SetupBuildsTree ==
    [][(program = "setup" /\ last'.op = "setupLine") =>
        LET line == last.lines[last.i]
            n == last'.node
            target == SetupParent(last.state, line.position)
        IN  /\ Len(last'.state) >= 1
            /\ last'.state[1] = [parent |-> rootNode(1), indentation |-> 0]
            /\ IF line.columnData = <<>>
               THEN /\ n = NULL
                    /\ UNCHANGED <<m_childNodes, m_parentNode, m_itemData, live>>
                    /\ last'.state = last.state
               ELSE /\ n \in Nodes \ live
                    /\ live' = live \cup {n}
                    /\ m_childNodes' = [m_childNodes EXCEPT ![target] = Append(@, n)]
                    /\ m_parentNode' = [m_parentNode EXCEPT ![n] = target]
                    /\ m_itemData' = [m_itemData EXCEPT ![n] = line.columnData]
                    /\ last'.state[Len(last'.state)].parent = target
      ]_vars

\* a line at indentation 0 after lines at 0, 2 and 4 popped two levels and
\* became a top-level node
C29_Witness ==
    /\ program = "setup" /\ last.op = "setupLine"
    /\ Len(last.pre) = 3 /\ Len(last.state) = 1
    /\ last.node # NULL
    /\ m_parentNode[last.node] = rootNode(1)
    /\ Len(m_childNodes[rootNode(1)]) = 2

\* the passes together are setupModelData, and the tree has one node per
\* non-blank line
SetupStepsCompose ==
    (program = "setup" /\ last.i > Len(last.lines)) =>
        /\ Heap = setupModelData(SetupRoot, last.lines, rootNode(1))
        /\ Cardinality(live) =
             1 + Cardinality({k \in 1..Len(last.lines) : last.lines[k].columnData # <<>>})

====
